---- MODULE Spec2Model ----
(***************************************************************************)
(* The deduplicating import pipeline of manage_data.py / update_data.py:   *)
(* a directory of JSON exports is read file by file and document by        *)
(* document into the tables posts, data_downloads and download_runs of a   *)
(* SQLite store, under the bookkeeping of one download run.                *)
(***************************************************************************)
EXTENDS Integers, Sequences, FiniteSets, TLC

\* ------------------------------------------------------------------ bounds

\* Largest number of entries (documents, or files without documents) in the
\* directory that is imported.
MaxItems == 2

\* Largest number of invocations (runs of an entry point), those before the
\* first state of a behaviour included.
MaxRuns == 3

\* ------------------------------------------------------------- JSON values

\* A key that is missing from a JSON object.
ABSENT == "<absent>"

\* JSON null, Python None.
NULL == "<null>"

\* The platform identities that occur in the documents.
Urns == {"urn:1", "urn:2"}

\* Python truthiness of a string-or-None value: None and "" are falsy.
Truthy(v) == v \notin {NULL, ABSENT, ""}

\* dict.get(key): None for a missing key.
Get(v) == IF v = ABSENT THEN NULL ELSE v

\* Python's `a or b`.
PyOr(a, b) == IF Truthy(a) THEN a ELSE b

\* One element of a file's top-level array. is_dict is FALSE for an element
\* that is no JSON object (a string, a number); urn_kind says whether the
\* "urn" key is missing, holds an object or holds a scalar.  The keys that
\* import_directory reads with .get() on their value say what kind of value
\* they hold: author and posted_at are missing (ABSENT), an object ("dict"),
\* null or another value that is no object ("str"); stats is missing, null,
\* an object of scalars ("dict"), or an object with an array or an object
\* among its counts ("nested"), which sqlite3 cannot bind to a column.  text
\* is missing, a string ("str") or an object ("dict"), and stands for every
\* value of the document that goes into a column of posts as it is.  The
\* identities are strings or null.
MkDoc(full_urn, urn_kind, urn, activity_urn, ugcPost_urn, stats) ==
    [is_dict |-> TRUE, full_urn |-> full_urn, urn_kind |-> urn_kind, urn |-> urn,
     activity_urn |-> activity_urn, ugcPost_urn |-> ugcPost_urn, stats |-> stats,
     author |-> ABSENT, posted_at |-> ABSENT, text |-> ABSENT]

\* A document identified by its full_urn.
DocFull1 == MkDoc("urn:1", "absent", ABSENT, ABSENT, ABSENT, "dict")

\* A document identified by urn.ugcPost_urn, its activity_urn being empty.
DocNested2 == MkDoc(ABSENT, "dict", ABSENT, "", "urn:2", ABSENT)

\* A document with no usable identity: its full_urn and the members of its
\* composite urn are empty or null, and get_post_urn returns "".
DocNoUrn == MkDoc(NULL, "dict", ABSENT, NULL, "", "dict")

\* A document of the post urn:1 with a scalar urn, whose "stats" is null.
DocNullStats == MkDoc(NULL, "scalar", "urn:1", ABSENT, ABSENT, NULL)

\* A document of the post urn:1 whose "author" is null and that has no
\* "stats".
DocNullAuthor1 ==
    [MkDoc("urn:1", "absent", ABSENT, ABSENT, ABSENT, ABSENT) EXCEPT !.author = NULL]

\* A document of the post urn:2 with an array among the counts of its "stats".
DocListStats2 == MkDoc("urn:2", "absent", ABSENT, ABSENT, ABSENT, "nested")

\* A document of the post urn:2 whose "posted_at" is a string.
DocStrPostedAt2 ==
    [MkDoc("urn:2", "absent", ABSENT, ABSENT, ABSENT, "dict") EXCEPT !.posted_at = "str"]

\* A document of the post urn:2 whose "text" is an object.
DocDictText2 ==
    [MkDoc("urn:2", "absent", ABSENT, ABSENT, ABSENT, "dict") EXCEPT !.text = "dict"]

\* An array element that is no object.
DocNotDict ==
    [is_dict |-> FALSE, full_urn |-> ABSENT, urn_kind |-> "absent", urn |-> ABSENT,
     activity_urn |-> ABSENT, ugcPost_urn |-> ABSENT, stats |-> ABSENT,
     author |-> ABSENT, posted_at |-> ABSENT, text |-> ABSENT]

\* The elements the imported arrays are made of.
Elements ==
    {DocFull1, DocNested2, DocNoUrn, DocNullStats, DocNullAuthor1, DocListStats2, DocNotDict}

\* ------------------------------------------------------------ get_post_urn

\* get_post_urn trying the members of a composite urn in the other order.
get_post_urn_UgcFirst(post) ==
    LET urn == Get(post.full_urn)
    IN  IF ~Truthy(urn) /\ post.urn_kind # "absent"
        THEN IF post.urn_kind = "dict"
             THEN PyOr(Get(post.ugcPost_urn), Get(post.activity_urn))
             ELSE post.urn
        ELSE urn

get_post_urn(post) ==
    LET urn == Get(post.full_urn)
    IN  IF ~Truthy(urn) /\ post.urn_kind # "absent"
        THEN IF post.urn_kind = "dict"
             THEN PyOr(Get(post.activity_urn), Get(post.ugcPost_urn))
             ELSE post.urn
        ELSE urn

\* Whether the identity of a document resolves.
Resolves(post) == post.is_dict /\ Truthy(get_post_urn(post))

\* ------------------------------------------------------------------- files

\* All sequences over S of length n.
SeqsOfLen(S, n) == [1..n -> S]

\* A file that cannot be read or is not JSON: json.load raises.
UnreadableFile == [kind |-> "unreadable", docs |-> <<>>]

\* A file whose top-level JSON value is neither an array nor an object.
ScalarFile == [kind |-> "scalar", docs |-> <<>>]

\* A file holding a single JSON object: one with an identity, one without.
ObjectFiles == {[kind |-> "object", docs |-> <<d>>] : d \in {DocFull1, DocNoUrn}}

\* The files weighing n entries: an array of n elements, and for n = 1 also
\* the empty array and the files without documents.
FilesOfSize(n) ==
    {[kind |-> "array", docs |-> ds] : ds \in SeqsOfLen(Elements, n)}
    \cup (IF n = 1
          THEN {UnreadableFile, ScalarFile, [kind |-> "array", docs |-> <<>>]}
               \cup ObjectFiles
          ELSE {})

RECURSIVE DirsOfSize(_)
\* The directory listings weighing exactly n entries.
DirsOfSize(n) ==
    IF n = 0 THEN {<<>>}
    ELSE UNION {{<<f>> \o d : f \in FilesOfSize(k), d \in DirsOfSize(n - k)} : k \in 1..n}

\* What is at the path an entry point is given.  exists is
\* Path(directory).exists(), isdir is os.path.isdir(directory), files is what
\* glob.glob(f"{directory}/*.json") lists, and hidden tells whether the
\* directory holds a *.json file whose name begins with a dot, which
\* Path.glob("*.json") lists and glob.glob leaves out.
Path(exists, isdir, listing, hidden) ==
    [exists |-> exists, isdir |-> isdir, files |-> listing, hidden |-> hidden]

\* ------------------------------------------------------------------- store

\* The processes that may run an entry point.
Procs == {1, 2}

VARIABLES
    fs,       \* the path an entry point is given: what is there, and its *.json files
    db,       \* the committed content of the SQLite file
    work,     \* the uncommitted image of the connection that holds the write lock
    lock,     \* the process whose connection holds the write lock, 0 for none
    clock,    \* datetime.now(), as a counter of the readings complete_download_run has made
    nruns,    \* the invocations started so far
    pc,       \* per process: where its entry point stands
    run_id,   \* per process: the download run of its import
    files,    \* per process: the files import_directory still has to open
    data,     \* per process: the documents of the open file still to process
    stats,    \* per process: import_directory's counters
    held,     \* per process: the post_id of the document whose INSERT waits for the lock
    rejected, \* per process: whether the import has printed that an INSERT was rejected
    ret,      \* per process: what the entry point returned or reported
    txn,      \* per process: the transaction of its connection, the write lock apart
    calls,    \* every call of complete_download_run that returned, with its arguments
    now,      \* per process: the datetime.now() its call of complete_download_run has read
    log,      \* every return of import_directory so far, with the store it left
    frame     \* the call of a pure function at hand: its arguments and its result

vars == <<fs, db, work, lock, clock, nruns, pc, run_id, files, data, stats,
          held, rejected, ret, txn, calls, now, log, frame>>

\* No call of a pure function is at hand.
NoFrame == [fn |-> "none"]

\* An identifier '{prefix}-{hex}', the hex part numbered instead of spelled.
AwsId(prefix, hex) == [prefix |-> prefix, hex |-> hex]

PREFIX_POST == "p"

PREFIX_DOWNLOAD == "dl"

PREFIX_RUN == "run"

\* No identifier: run_id before a run exists.
NoId == AwsId("", 0)

\* Every identifier of a row of d.
IdsIn(d) ==
    {r.post_id : r \in d.posts} \cup {r.download_id : r \in d.data_downloads}
    \cup {r.run_id : r \in d.download_runs}

\* The hex parts in use under a prefix, in the file or in an open transaction.
UsedHex(prefix) == {i.hex : i \in {j \in IdsIn(db) \cup IdsIn(work) : j.prefix = prefix}}

\* The least hex part not in used.
FreshHex(used) ==
    CHOOSE n \in 1..(Cardinality(used) + 1) : n \notin used /\ \A m \in 1..(n - 1) : m \in used

\* The tokens generate_aws_id(prefix) may return.  secrets.token_hex(4) draws any
\* of 16^8 values with no look at the store; the values no row carries are
\* interchangeable, so one of them stands for all, beside every value in use.
generate_aws_id(prefix) ==
    {AwsId(prefix, h) : h \in UsedHex(prefix) \cup {FreshHex(UsedHex(prefix))}}

\* The store as the connection of process p sees it.
View(p) == IF lock = p THEN work ELSE db

\* posts: post_id PRIMARY KEY, urn UNIQUE (a UNIQUE column of SQLite admits
\* any number of NULLs).
InsertPostOk(d, row) ==
    \A r \in d.posts : r.post_id # row.post_id /\ (r.urn # row.urn \/ row.urn = NULL)

\* data_downloads: download_id PRIMARY KEY, post_id and run_id FOREIGN KEYs,
\* enforced at once under PRAGMA foreign_keys = ON.
InsertDownloadOk(d, row) ==
    /\ \A r \in d.data_downloads : r.download_id # row.download_id
    /\ \E r \in d.posts : r.post_id = row.post_id
    /\ \E r \in d.download_runs : r.run_id = row.run_id

\* download_runs: run_id PRIMARY KEY.
InsertRunOk(d, row) ==
    \A r \in d.download_runs : r.run_id # row.run_id

EmptyStore == [posts |-> {}, data_downloads |-> {}, download_runs |-> {}]

\* The row create_download_run inserts (the columns that tell runs apart or
\* that complete_download_run sets; 0, -1 and NULL stand for SQL NULL).
RunRow(rid) ==
    [run_id |-> rid, status |-> "running",
     completed_at |-> 0, posts_fetched |-> -1, posts_new |-> -1,
     error_message |-> NULL]

\* PostRow with the values of the columns urn and full_urn in each other's
\* place.
PostRow_ColumnsSwapped(post_id, urn, post) ==
    [post_id |-> post_id, urn |-> Get(post.full_urn), full_urn |-> urn,
     raw_json |-> post, is_read |-> FALSE, is_marked |-> FALSE]

\* The row import_directory inserts for a post it has not found.
PostRow(post_id, urn, post) ==
    [post_id |-> post_id, urn |-> urn, full_urn |-> Get(post.full_urn),
     raw_json |-> post, is_read |-> FALSE, is_marked |-> FALSE]

\* The row import_directory inserts for a sighting of a post.
DownloadRow(download_id, post_id, rid, post) ==
    [download_id |-> download_id, post_id |-> post_id, run_id |-> rid,
     raw_json |-> post]

\* A store left by an earlier, completed import of one document of urn:1,
\* which a reader has since marked as read.
PriorStore ==
    [posts |-> {[PostRow(AwsId(PREFIX_POST, 1), "urn:1", DocFull1) EXCEPT !.is_read = TRUE]},
     data_downloads |->
        {DownloadRow(AwsId(PREFIX_DOWNLOAD, 1), AwsId(PREFIX_POST, 1), AwsId(PREFIX_RUN, 1), DocFull1)},
     download_runs |->
        {[RunRow(AwsId(PREFIX_RUN, 1)) EXCEPT
            !.status = "completed", !.completed_at = 1, !.posts_fetched = 1, !.posts_new = 1]}]

InitialStores == {EmptyStore, PriorStore}

ZeroStats == [processed |-> 0, new |-> 0, duplicates |-> 0, errors |-> 0]

\* stats[k] += 1
Bump(st, k) == [st EXCEPT ![k] = @ + 1]

\* ------------------------------------------------------------ manage_data.py

\* create_download_run: the store with the run's row inserted, as the INSERT
\* leaves it for the commit that follows.
create_download_run(d, rid) ==
    [d EXCEPT !.download_runs = @ \cup {RunRow(rid)}]

\* complete_download_run with `error_message is not None` in the place of the
\* truth value of error_message.
complete_download_run_MessageGiven(d, rid, st, error_message, completed_at) ==
    LET status == IF error_message # NULL \/ st.errors > 0 THEN "failed" ELSE "completed"
    IN  [d EXCEPT !.download_runs =
            {IF r.run_id = rid
             THEN [r EXCEPT !.completed_at = completed_at, !.status = status,
                            !.posts_fetched = st.processed, !.posts_new = st.new,
                            !.error_message = error_message]
             ELSE r : r \in @}]

\* complete_download_run: the store after its UPDATE ... WHERE run_id = rid; the
\* run's row gets the status the arguments decide, whatever the row held.
complete_download_run(d, rid, st, error_message, completed_at) ==
    LET status == IF Truthy(error_message) \/ st.errors > 0 THEN "failed" ELSE "completed"
    IN  [d EXCEPT !.download_runs =
            {IF r.run_id = rid
             THEN [r EXCEPT !.completed_at = completed_at, !.status = status,
                            !.posts_fetched = st.processed, !.posts_new = st.new,
                            !.error_message = error_message]
             ELSE r : r \in @}]

\* SELECT post_id FROM posts WHERE urn = ?: the rows found.
select_post(d, urn) == {r \in d.posts : r.urn = urn}

\* insert_post with a rejected insert counted as a duplicate.
insert_post_ConflictAsDuplicate(d, st, post, urn, post_id) ==
    LET row == PostRow(post_id, urn, post)
    IN  IF post.text = "dict"
        THEN [db |-> d, stats |-> st, post_id |-> post_id, go |-> FALSE, raised |-> TRUE]
        ELSE IF InsertPostOk(d, row)
        THEN [db |-> [d EXCEPT !.posts = @ \cup {row}], stats |-> Bump(st, "new"),
              post_id |-> post_id, go |-> TRUE, raised |-> FALSE]
        ELSE [db |-> d, stats |-> Bump(st, "duplicates"), post_id |-> post_id,
              go |-> FALSE, raised |-> FALSE]

\* import_directory, the INSERT INTO posts of a post that the existence check
\* did not find: the store, the counters, the post's identifier, whether the
\* document goes on to its data_downloads entry (not after an IntegrityError),
\* and whether an exception left the loop over the file's documents: sqlite3
\* raises when a value is of a type it cannot bind, before SQLite sees the
\* statement.
insert_post(d, st, post, urn, post_id) ==
    LET row == PostRow(post_id, urn, post)
    IN  IF post.text = "dict"
        THEN [db |-> d, stats |-> st, post_id |-> post_id, go |-> FALSE, raised |-> TRUE]
        ELSE IF InsertPostOk(d, row)
        THEN [db |-> [d EXCEPT !.posts = @ \cup {row}], stats |-> Bump(st, "new"),
              post_id |-> post_id, go |-> TRUE, raised |-> FALSE]
        ELSE [db |-> d, stats |-> Bump(st, "errors"), post_id |-> post_id,
              go |-> FALSE, raised |-> FALSE]

\* Whether import_directory reads the metadata of a post it has not found
\* without an exception: author.get and posted_at.get work on an object, and
\* on the {} that post.get puts in the place of a missing key.
ReadsMetadata(post) ==
    post.author \in {ABSENT, "dict"} /\ post.posted_at \in {ABSENT, "dict"}

\* store_post as an upsert: the row of a post that is found is written anew
\* from the incoming document.
store_post_Upsert(d, st, post, urn, post_id) ==
    LET existing == select_post(d, urn)
        found == (CHOOSE r \in existing : TRUE).post_id
    IN  IF existing # {}
        THEN [db |-> [d EXCEPT !.posts = (@ \ existing) \cup {PostRow(found, urn, post)}],
              stats |-> Bump(st, "duplicates"), post_id |-> found, go |-> TRUE,
              raised |-> FALSE]
        ELSE IF ~ReadsMetadata(post)
        THEN [db |-> d, stats |-> st, post_id |-> post_id, go |-> FALSE, raised |-> TRUE]
        ELSE insert_post(d, st, post, urn, post_id)

\* import_directory, the existence check and what follows from it: a post
\* that is found counts as a duplicate; for one that is not, the metadata are
\* read from the document, which raises on an author or a posted_at that is no
\* object, and the post is inserted.
store_post(d, st, post, urn, post_id) ==
    LET existing == select_post(d, urn)
    IN  IF existing # {}
        THEN [db |-> d, stats |-> Bump(st, "duplicates"),
              post_id |-> (CHOOSE r \in existing : TRUE).post_id, go |-> TRUE,
              raised |-> FALSE]
        ELSE IF ~ReadsMetadata(post)
        THEN [db |-> d, stats |-> st, post_id |-> post_id, go |-> FALSE, raised |-> TRUE]
        ELSE insert_post(d, st, post, urn, post_id)

\* store_download on a connection without PRAGMA foreign_keys = ON: only the
\* primary key can reject the insert.
store_download_NoForeignKeys(d, st, post, post_id, rid, download_id) ==
    LET row == DownloadRow(download_id, post_id, rid, post)
    IN  IF post.stats \in {NULL, "nested"}
        THEN [db |-> d, stats |-> st, raised |-> TRUE]
        ELSE IF \A r \in d.data_downloads : r.download_id # download_id
        THEN [db |-> [d EXCEPT !.data_downloads = @ \cup {row}], stats |-> st,
              raised |-> FALSE]
        ELSE [db |-> d, stats |-> Bump(st, "errors"), raised |-> FALSE]

\* store_download keeping one row per post: the insert replaces the rows the
\* post has.
store_download_OnePerPost(d, st, post, post_id, rid, download_id) ==
    LET row == DownloadRow(download_id, post_id, rid, post)
        others == {o \in d.data_downloads : o.post_id # post_id}
    IN  IF post.stats \in {NULL, "nested"}
        THEN [db |-> d, stats |-> st, raised |-> TRUE]
        ELSE IF InsertDownloadOk(d, row)
        THEN [db |-> [d EXCEPT !.data_downloads = others \cup {row}], stats |-> st,
              raised |-> FALSE]
        ELSE [db |-> d, stats |-> Bump(st, "errors"), raised |-> FALSE]

\* import_directory, the data_downloads entry of a document: the store, the
\* counters, and whether an exception left the loop over the file's documents:
\* stats_data.get on a "stats" that is null, or sqlite3 on a count that it
\* cannot bind to the INSERT.
store_download(d, st, post, post_id, rid, download_id) ==
    LET row == DownloadRow(download_id, post_id, rid, post)
    IN  IF post.stats \in {NULL, "nested"}
        THEN [db |-> d, stats |-> st, raised |-> TRUE]
        ELSE IF InsertDownloadOk(d, row)
        THEN [db |-> [d EXCEPT !.data_downloads = @ \cup {row}], stats |-> st,
              raised |-> FALSE]
        ELSE [db |-> d, stats |-> Bump(st, "errors"), raised |-> FALSE]

\* import_directory, what follows the existence check of a document, sp being
\* the outcome of store_post or insert_post.
after_post(sp, post, rid, download_id) ==
    IF sp.go
    THEN store_download(sp.db, sp.stats, post, sp.post_id, rid, download_id)
    ELSE [db |-> sp.db, stats |-> sp.stats, raised |-> sp.raised]

\* import_post with `urn is None` in the place of `not urn`.
import_post_NoneOnly(d, st, post, rid, post_id, download_id) ==
    LET st1 == Bump(st, "processed")
        urn == get_post_urn(post)
    IN  IF ~post.is_dict
        THEN [db |-> d, stats |-> st1, raised |-> TRUE]
        ELSE IF urn = NULL
        THEN [db |-> d, stats |-> Bump(st1, "errors"), raised |-> FALSE]
        ELSE after_post(store_post(d, st1, post, urn, post_id), post, rid, download_id)

\* import_directory, the body of `for post in data` for one document, with the
\* identifiers generate_aws_id hands out.
import_post(d, st, post, rid, post_id, download_id) ==
    LET st1 == Bump(st, "processed")
        urn == get_post_urn(post)
    IN  IF ~post.is_dict
        THEN [db |-> d, stats |-> st1, raised |-> TRUE]
        ELSE IF ~Truthy(urn)
        THEN [db |-> d, stats |-> Bump(st1, "errors"), raised |-> FALSE]
        ELSE after_post(store_post(d, st1, post, urn, post_id), post, rid, download_id)

\* The positions at which no entry point is running.
Finished == {"idle", "done", "raised", "killed"}

\* The transaction a connection is in, the write lock apart (txn): "none";
\* "open", the transaction sqlite3 began before an INSERT that gave up
\* waiting, which holds no lock; "read", the same after a SELECT, whose read
\* lock stays until the commit.
\* The other connections that hold a read lock of the SQLite file in a
\* transaction: a commit of p that has something to write waits for them, for
\* at most the 5 seconds of sqlite3.connect's default timeout.
Readers(p) == {q \in Procs \ {p} : txn[q] = "read"}

\* Whether another connection holds the write lock of the SQLite file: a
\* statement of p that writes then waits, for at most the 5 seconds of
\* sqlite3.connect's default timeout, unless p's connection holds a read lock
\* in a transaction, when SQLite refuses at once.
Busy(p) == lock \notin {0, p}

\* The process-local state an entry point starts from.  The processes being
\* interchangeable, the one that runs alone or starts first is process 1.
Begin(p) ==
    /\ pc[p] \in Finished
    /\ p = 1 \/ pc[1] \notin Finished
    /\ nruns < MaxRuns
    /\ nruns' = nruns + 1
    /\ data' = [data EXCEPT ![p] = <<>>]
    /\ stats' = [stats EXCEPT ![p] = ZeroStats]
    /\ held' = [held EXCEPT ![p] = NoId]
    /\ rejected' = [rejected EXCEPT ![p] = FALSE]

\* The entry point is at position `at` before import_directory's loop, with r
\* returned or reported, no run_id in its hands and nothing written to the
\* file.
LeaveEarly(p, at, r) ==
    /\ pc' = [pc EXCEPT ![p] = at]
    /\ run_id' = [run_id EXCEPT ![p] = NoId]
    /\ files' = [files EXCEPT ![p] = <<>>]
    /\ ret' = [ret EXCEPT ![p] = r]
    /\ txn' = [txn EXCEPT ![p] = "none"]
    /\ UNCHANGED db

\* An exception leaves the entry point `by`, the connection of p holding the
\* write lock (holds, with the uncommitted image tx) or not.  main closes the
\* connection on its way out (finally: conn.close()), which rolls back, and
\* so does the caller of import_directory that stands for the users of the
\* module.  import_data returns None without closing: the connection stays
\* open with its transaction and its lock.
Abandon(p, by, holds, tx) ==
    IF holds /\ by = "import_data"
    THEN lock' = p /\ work' = tx
    ELSE IF holds
    THEN lock' = 0 /\ work' = db
    ELSE UNCHANGED <<lock, work>>

\* get_connection and create_download_run of the entry point `by`, up to its
\* conn.commit().  The INSERT of the run takes the write lock; an identifier
\* in use is rejected (IntegrityError), which leaves the entry point (main lets
\* it pass, import_data catches it and returns None).  While another
\* connection holds the write lock the INSERT waits; behind the connection
\* that an earlier import_data of the same process left open it waits in vain
\* and gives up (OperationalError).
OpenRun(p, by) ==
    IF lock = 0
    THEN \E rid \in generate_aws_id(PREFIX_RUN) :
            IF InsertRunOk(db, RunRow(rid))
            THEN /\ work' = create_download_run(db, rid)
                 /\ lock' = p
                 /\ pc' = [pc EXCEPT ![p] = "created"]
                 /\ run_id' = [run_id EXCEPT ![p] = rid]
                 /\ files' = [files EXCEPT ![p] = <<>>]
                 /\ ret' = [ret EXCEPT ![p] = "pending"]
                 /\ txn' = [txn EXCEPT ![p] = "none"]
                 /\ UNCHANGED db
            ELSE LeaveEarly(p, "raised", "raised") /\ Abandon(p, by, TRUE, db)
    ELSE IF lock = p
    THEN LeaveEarly(p, "raised", "raised") /\ UNCHANGED <<work, lock>>
    ELSE LeaveEarly(p, "wait_run", "pending") /\ UNCHANGED <<work, lock>>

\* main calling import_directory without a look at the directory.
StartManageData_NoDirCheck(p) ==
    /\ Begin(p)
    /\ OpenRun(p, "main")
    /\ UNCHANGED <<frame, fs, clock, calls, now, log>>

\* manage_data.py import <directory>: main up to the loop of import_directory.
StartManageData(p) ==
    /\ Begin(p)
    /\ IF fs.isdir
       THEN OpenRun(p, "main")
       ELSE LeaveEarly(p, "done", "not_found") /\ UNCHANGED <<work, lock>>
    /\ UNCHANGED <<frame, fs, clock, calls, now, log>>

\* update_data.import_data up to the loop of import_directory.
StartUpdateData(p) ==
    /\ Begin(p)
    /\ IF ~fs.exists
       THEN LeaveEarly(p, "done", "None") /\ UNCHANGED <<work, lock>>
       ELSE IF fs.files = <<>> /\ ~fs.hidden
       THEN LeaveEarly(p, "done", "stats") /\ UNCHANGED <<work, lock>>
       ELSE OpenRun(p, "import_data")
    /\ UNCHANGED <<frame, fs, clock, calls, now, log>>

\* The INSERT of create_download_run that waited gets the write lock.
ResumeRun(p, by) ==
    /\ pc[p] = "wait_run"
    /\ lock = 0
    /\ OpenRun(p, by)
    /\ UNCHANGED <<frame, fs, clock, nruns, data, stats, held, rejected, calls, now, log>>

\* create_download_run, conn.commit(): the run is in the file once no other
\* connection holds a read lock, and import_directory goes to its loop over
\* the files that glob.glob listed.
CommitRun(p) ==
    /\ pc[p] = "created"
    /\ Readers(p) = {}
    /\ db' = work
    /\ lock' = 0
    /\ pc' = [pc EXCEPT ![p] = "files"]
    /\ files' = [files EXCEPT ![p] = fs.files]
    /\ UNCHANGED <<frame, fs, work, clock, nruns, run_id, data, stats, held, rejected, ret,
                   txn, calls, now, log>>

\* create_download_run called by the entry point `by` gives up: its INSERT
\* waiting for the write lock, or its commit waiting for the read lock of
\* another connection.  The OperationalError leaves the entry point, and no
\* run is in the file.
RunTimeout(p, by) ==
    /\ \/ pc[p] = "wait_run" /\ Busy(p)
       \/ pc[p] = "created" /\ Readers(p) # {}
    /\ LeaveEarly(p, "raised", "raised")
    /\ Abandon(p, by, pc[p] = "created", work)
    /\ UNCHANGED <<frame, fs, clock, nruns, data, stats, held, rejected, calls, now, log>>

\* OpenFile with the try block around the loop over the files: a file that
\* cannot be loaded ends the loop.
OpenFile_TryAroundLoop(p) ==
    /\ pc[p] = "files"
    /\ files[p] # <<>>
    /\ LET f == Head(files[p])
           docs == IF f.kind \in {"array", "object"} THEN f.docs ELSE <<>>
       IN  /\ files' = [files EXCEPT ![p] = IF f.kind = "unreadable" THEN <<>> ELSE Tail(@)]
           /\ data' = [data EXCEPT ![p] = docs]
           /\ stats' = [stats EXCEPT ![p] = IF f.kind = "unreadable" THEN Bump(@, "errors") ELSE @]
           /\ pc' = [pc EXCEPT ![p] = IF docs = <<>> THEN "files" ELSE "docs"]
    /\ UNCHANGED <<frame, fs, db, work, lock, clock, nruns, run_id, held, rejected, ret, txn, calls, now, log>>

\* import_directory, one turn of `for fpath in files` up to the loop over the
\* file's documents: open, json.load, the check of the top-level value.
OpenFile(p) ==
    /\ pc[p] = "files"
    /\ files[p] # <<>>
    /\ LET f == Head(files[p])
           docs == IF f.kind \in {"array", "object"} THEN f.docs ELSE <<>>
       IN  /\ files' = [files EXCEPT ![p] = Tail(@)]
           /\ data' = [data EXCEPT ![p] = docs]
           /\ stats' = [stats EXCEPT ![p] = IF f.kind = "unreadable" THEN Bump(@, "errors") ELSE @]
           /\ pc' = [pc EXCEPT ![p] = IF docs = <<>> THEN "files" ELSE "docs"]
    /\ UNCHANGED <<frame, fs, db, work, lock, clock, nruns, run_id, held, rejected, ret, txn, calls, now, log>>

\* Whether the turn with outcome r has run into a handler of
\* sqlite3.IntegrityError: the counters hold an error more for a document whose
\* identity resolved and that raised nothing.
IntegrityError(p, r) ==
    /\ Resolves(Head(data[p]))
    /\ ~r.raised
    /\ r.stats.errors > stats[p].errors

\* The end of a turn with the try statement around the single document: an
\* exception counts an error and the loop goes on with the next document.
DocDone_TryAroundDocument(p, r) ==
    LET rest == Tail(data[p])
    IN  /\ stats' = [stats EXCEPT ![p] = IF r.raised THEN Bump(r.stats, "errors") ELSE r.stats]
        /\ data' = [data EXCEPT ![p] = rest]
        /\ pc' = [pc EXCEPT ![p] = IF rest = <<>> THEN "files" ELSE "docs"]
        /\ held' = [held EXCEPT ![p] = NoId]
        /\ rejected' = [rejected EXCEPT ![p] = @ \/ IntegrityError(p, r)]
        /\ IF r.db # View(p) \/ IntegrityError(p, r)
           THEN work' = r.db /\ lock' = p
           ELSE UNCHANGED <<work, lock>>

\* The end of a turn whose exception handler counts no error.
DocDone_RaiseNotCounted(p, r) ==
    LET rest == IF r.raised THEN <<>> ELSE Tail(data[p])
    IN  /\ stats' = [stats EXCEPT ![p] = r.stats]
        /\ data' = [data EXCEPT ![p] = rest]
        /\ pc' = [pc EXCEPT ![p] = IF rest = <<>> THEN "files" ELSE "docs"]
        /\ held' = [held EXCEPT ![p] = NoId]
        /\ rejected' = [rejected EXCEPT ![p] = @ \/ IntegrityError(p, r)]
        /\ IF r.db # View(p) \/ IntegrityError(p, r)
           THEN work' = r.db /\ lock' = p
           ELSE UNCHANGED <<work, lock>>

\* The end of one turn of `for post in data` with outcome r: the handler of an
\* exception counts an error and leaves the file; what was written stays in
\* the connection's open transaction.  The connection holds the write lock
\* from its first INSERT that SQLite carried out or rejected (IntegrityError)
\* until its commit.
DocDone(p, r) ==
    LET rest == IF r.raised THEN <<>> ELSE Tail(data[p])
    IN  /\ stats' = [stats EXCEPT ![p] = IF r.raised THEN Bump(r.stats, "errors") ELSE r.stats]
        /\ data' = [data EXCEPT ![p] = rest]
        /\ pc' = [pc EXCEPT ![p] = IF rest = <<>> THEN "files" ELSE "docs"]
        /\ held' = [held EXCEPT ![p] = NoId]
        /\ rejected' = [rejected EXCEPT ![p] = @ \/ IntegrityError(p, r)]
        /\ IF r.db # View(p) \/ IntegrityError(p, r)
           THEN work' = r.db /\ lock' = p
           ELSE UNCHANGED <<work, lock>>

\* The transaction of p's connection after a turn: t, or none of its own
\* once the connection holds the write lock.
Turned(p, t) ==
    txn' = [txn EXCEPT ![p] = IF lock' = p THEN "none" ELSE t]

\* The transaction of p's connection after the SELECT of a turn: in autocommit
\* mode the read lock goes when the statement ends, in an open transaction it
\* stays.
AfterSelect(p) == IF txn[p] = "none" THEN "none" ELSE "read"

\* The transaction of a connection that was in t, after an INSERT that took
\* no lock: sqlite3 begins a transaction before it binds the values of the
\* statement and before SQLite asks for the write lock.
Began(t) == IF t = "none" THEN "open" ELSE t

\* Whether the turn on post, whose identity resolves, comes in store d to an
\* INSERT with a value that sqlite3 cannot bind, no row having been written
\* in the turn.
Unbound(d, post) ==
    IF select_post(d, get_post_urn(post)) # {}
    THEN post.stats = "nested"
    ELSE ReadsMetadata(post) /\ post.text = "dict"

\* import_directory, one turn of `for post in data` on a connection that can
\* write.
ProcessDoc(p) ==
    /\ pc[p] = "docs"
    /\ lock \in {0, p}
    /\ \E post_id \in generate_aws_id(PREFIX_POST), download_id \in generate_aws_id(PREFIX_DOWNLOAD) :
        DocDone(p, import_post(View(p), stats[p], Head(data[p]), run_id[p], post_id, download_id))
    /\ Turned(p, IF ~Resolves(Head(data[p])) THEN txn[p]
                 ELSE IF Unbound(View(p), Head(data[p])) THEN Began(AfterSelect(p))
                 ELSE AfterSelect(p))
    /\ UNCHANGED <<frame, fs, db, clock, nruns, run_id, files, ret, calls, now, log>>

\* Commit with the run completed inside import_directory, before its return.
Commit_CompletesRun(p) ==
    /\ pc[p] = "files"
    /\ files[p] = <<>>
    /\ db' = complete_download_run(IF lock = p THEN work ELSE db, run_id[p], stats[p], NULL, clock)
    /\ work' = db'
    /\ lock' = IF lock = p THEN 0 ELSE lock
    /\ log' = Append(log, [run_id |-> run_id[p], files |-> fs.files, stats |-> stats[p],
                         rejected |-> rejected[p],
                         posts |-> View(p).posts, downloads |-> View(p).data_downloads])
    /\ pc' = [pc EXCEPT ![p] = "complete"]
    /\ txn' = [txn EXCEPT ![p] = "none"]
    /\ UNCHANGED <<frame, fs, clock, nruns, run_id, files, data, stats, held, rejected, ret, calls, now>>

\* import_directory, conn.commit() and the return of (stats, run_id).  A
\* connection that holds the write lock commits once no other connection
\* holds a read lock; one that does not hold it has nothing to write, and
\* the commit ends its transaction and its read lock.
Commit(p) ==
    /\ pc[p] = "files"
    /\ files[p] = <<>>
    /\ IF lock = p
       THEN Readers(p) = {} /\ db' = work /\ work' = work /\ lock' = 0
       ELSE UNCHANGED <<db, work, lock>>
    /\ log' = Append(log, [run_id |-> run_id[p], files |-> fs.files, stats |-> stats[p],
                         rejected |-> rejected[p],
                         posts |-> View(p).posts, downloads |-> View(p).data_downloads])
    /\ pc' = [pc EXCEPT ![p] = "complete"]
    /\ txn' = [txn EXCEPT ![p] = "none"]
    /\ UNCHANGED <<frame, fs, clock, nruns, run_id, files, data, stats, held, rejected, ret, calls, now>>

\* import_directory called by the entry point `by`, conn.commit() gives up
\* waiting for the read lock of another connection: the OperationalError
\* leaves import_directory and the entry point, nothing of the transaction is
\* in the file, and nothing sets the run's status any more.
CommitTimeout(p, by) ==
    /\ pc[p] = "files"
    /\ files[p] = <<>>
    /\ lock = p
    /\ Readers(p) # {}
    /\ pc' = [pc EXCEPT ![p] = "raised"]
    /\ ret' = [ret EXCEPT ![p] = "raised"]
    /\ txn' = [txn EXCEPT ![p] = "none"]
    /\ Abandon(p, by, TRUE, work)
    /\ UNCHANGED <<frame, fs, db, clock, nruns, run_id, files, data, stats, held, rejected,
                   calls, now, log>>

\* A call complete_download_run(conn, rid, st, error_message) on a connection
\* with no open transaction, no other connection being at work: the UPDATE
\* and the commit.
CompleteCall(rid, st, error_message) ==
    /\ lock = 0
    /\ clock' = clock + 1
    /\ db' = complete_download_run(db, rid, st, error_message, clock')
    /\ work' = db'
    /\ calls' = Append(calls, [run_id |-> rid, errors |-> st.errors,
                               error_message |-> error_message, at |-> clock'])
    /\ UNCHANGED <<lock, now>>

\* The entry point calls complete_download_run with the counters of the
\* import: Python evaluates the arguments of the UPDATE, datetime.now() among
\* them, before the statement is executed and has to wait for the write lock.
CallComplete(p) ==
    /\ pc[p] = "complete"
    /\ clock' = clock + 1
    /\ now' = [now EXCEPT ![p] = clock']
    /\ pc' = [pc EXCEPT ![p] = "update"]
    /\ UNCHANGED <<frame, fs, db, work, lock, nruns, run_id, files, data, stats, held,
                   rejected, ret, txn, calls, log>>

\* complete_download_run, the UPDATE, which takes the write lock once no
\* other connection holds it.  Its completed_at is the time that was read
\* when the call began.
Complete(p) ==
    /\ pc[p] = "update"
    /\ lock = 0
    /\ work' = complete_download_run(db, run_id[p], stats[p], NULL, now[p])
    /\ lock' = p
    /\ pc' = [pc EXCEPT ![p] = "completing"]
    /\ UNCHANGED <<frame, fs, db, clock, nruns, run_id, files, data, stats, held, rejected, ret,
                   txn, calls, now, log>>

\* complete_download_run, conn.commit(), once no other connection holds a read
\* lock; the entry point closes the connection and returns.
CompleteCommit(p) ==
    /\ pc[p] = "completing"
    /\ Readers(p) = {}
    /\ db' = work
    /\ lock' = 0
    /\ calls' = Append(calls, [run_id |-> run_id[p], errors |-> stats[p].errors,
                               error_message |-> NULL, at |-> now[p]])
    /\ now' = [now EXCEPT ![p] = 0]
    /\ pc' = [pc EXCEPT ![p] = "done"]
    /\ ret' = [ret EXCEPT ![p] = "stats"]
    /\ UNCHANGED <<frame, fs, work, clock, nruns, run_id, files, data, stats, held, rejected,
                   txn, log>>

\* The kill of a process whose connection commits every statement at once:
\* what it wrote is in the file.
Kill_Autocommit(p) ==
    /\ pc[p] \notin Finished
    /\ pc' = [pc EXCEPT ![p] = "killed"]
    /\ files' = [files EXCEPT ![p] = <<>>]
    /\ data' = [data EXCEPT ![p] = <<>>]
    /\ stats' = [stats EXCEPT ![p] = ZeroStats]
    /\ held' = [held EXCEPT ![p] = NoId]
    /\ rejected' = [rejected EXCEPT ![p] = FALSE]
    /\ ret' = [ret EXCEPT ![p] = "killed"]
    /\ txn' = [txn EXCEPT ![p] = "none"]
    /\ db' = IF lock = p THEN work ELSE db
    /\ work' = db'
    /\ lock' = IF lock = p THEN 0 ELSE lock
    /\ now' = [now EXCEPT ![p] = 0]
    /\ UNCHANGED <<frame, fs, clock, nruns, run_id, calls, log>>

\* The process is killed inside import_directory or before it completes the
\* run: its memory, its open transaction and its locks are lost.
Kill(p) ==
    /\ pc[p] \notin Finished
    /\ pc' = [pc EXCEPT ![p] = "killed"]
    /\ files' = [files EXCEPT ![p] = <<>>]
    /\ data' = [data EXCEPT ![p] = <<>>]
    /\ stats' = [stats EXCEPT ![p] = ZeroStats]
    /\ held' = [held EXCEPT ![p] = NoId]
    /\ rejected' = [rejected EXCEPT ![p] = FALSE]
    /\ ret' = [ret EXCEPT ![p] = "killed"]
    /\ txn' = [txn EXCEPT ![p] = "none"]
    /\ work' = IF lock = p THEN db ELSE work
    /\ lock' = IF lock = p THEN 0 ELSE lock
    /\ now' = [now EXCEPT ![p] = 0]
    /\ UNCHANGED <<frame, fs, db, clock, nruns, run_id, calls, log>>

\* The connection that import_data or a caller of import_directory left open
\* with the write lock is closed, by the garbage collector or at the end of
\* the process: its transaction is rolled back.
Collect(p) ==
    /\ pc[p] \in Finished
    /\ lock = p
    /\ lock' = 0
    /\ work' = db
    /\ UNCHANGED <<frame, fs, db, clock, nruns, pc, run_id, files, data, stats, held, rejected,
                   ret, txn, calls, now, log>>

\* -------------------------------------------- a second connection in the way

\* import_directory, one turn of `for post in data` on a connection that has
\* not the write lock, up to its first INSERT: the SELECT reads the committed
\* store, and the turn stands before the INSERT (wait_post, wait_download),
\* which other connections may precede.  A turn that comes to no INSERT ends
\* here: the element is no object, its identity does not resolve, the
\* metadata of a post that was not found cannot be read, or the "stats" of a
\* post that was found is null.
ProcessDocSelect(p) ==
    /\ pc[p] = "docs"
    /\ lock # p
    /\ LET post == Head(data[p])
           st1 == Bump(stats[p], "processed")
           urn == get_post_urn(post)
           existing == select_post(db, urn)
           waits(at, st, post_id) ==
               /\ pc' = [pc EXCEPT ![p] = at]
               /\ stats' = [stats EXCEPT ![p] = st]
               /\ held' = [held EXCEPT ![p] = post_id]
               /\ txn' = [txn EXCEPT ![p] = AfterSelect(p)]
               /\ UNCHANGED <<data, work, lock, rejected>>
       IN  IF ~post.is_dict
           THEN DocDone(p, [db |-> db, stats |-> st1, raised |-> TRUE]) /\ UNCHANGED txn
           ELSE IF ~Truthy(urn)
           THEN DocDone(p, [db |-> db, stats |-> Bump(st1, "errors"), raised |-> FALSE])
                /\ UNCHANGED txn
           ELSE IF existing = {}
           THEN IF ReadsMetadata(post)
                THEN waits("wait_post", st1, NoId)
                ELSE DocDone(p, [db |-> db, stats |-> st1, raised |-> TRUE])
                     /\ Turned(p, AfterSelect(p))
           ELSE IF post.stats = NULL
           THEN DocDone(p, [db |-> db, stats |-> Bump(st1, "duplicates"), raised |-> TRUE])
                /\ Turned(p, AfterSelect(p))
           ELSE waits("wait_download", Bump(st1, "duplicates"),
                      (CHOOSE r \in existing : TRUE).post_id)
    /\ UNCHANGED <<frame, fs, db, clock, nruns, run_id, files, ret, calls, now, log>>

\* The INSERT INTO posts that was to come is executed, no other connection
\* holding the write lock, and the turn goes on; or sqlite3 cannot bind one of
\* its values and raises, whoever holds the lock.
ResumePost(p) ==
    /\ pc[p] = "wait_post"
    /\ lock = 0 \/ Head(data[p]).text = "dict"
    /\ \E post_id \in generate_aws_id(PREFIX_POST), download_id \in generate_aws_id(PREFIX_DOWNLOAD) :
        LET post == Head(data[p])
        IN  DocDone(p, after_post(insert_post(db, stats[p], post, get_post_urn(post), post_id),
                                  post, run_id[p], download_id))
    /\ Turned(p, IF Head(data[p]).text = "dict" THEN Began(txn[p]) ELSE txn[p])
    /\ UNCHANGED <<frame, fs, db, clock, nruns, run_id, files, ret, calls, now, log>>

\* The INSERT INTO data_downloads that was to come is executed, no other
\* connection holding the write lock; or sqlite3 cannot bind one of its values
\* and raises, whoever holds the lock.
ResumeDownload(p) ==
    /\ pc[p] = "wait_download"
    /\ lock = 0 \/ Head(data[p]).stats = "nested"
    /\ \E download_id \in generate_aws_id(PREFIX_DOWNLOAD) :
        DocDone(p, store_download(db, stats[p], Head(data[p]), held[p], run_id[p], download_id))
    /\ Turned(p, IF Head(data[p]).stats = "nested" THEN Began(txn[p]) ELSE txn[p])
    /\ UNCHANGED <<frame, fs, db, clock, nruns, run_id, files, ret, calls, now, log>>

\* The INSERT, whose values sqlite3 could bind, gives up behind the write lock
\* of another connection, after its wait or, on a connection that holds a
\* read lock, at once: sqlite3.OperationalError (database is locked), which
\* only the handler of the file catches.  The connection stays in the
\* transaction sqlite3 began before the INSERT, with the read lock it had.
InsertTimeout(p) ==
    /\ pc[p] \in {"wait_post", "wait_download"}
    /\ Busy(p)
    /\ IF pc[p] = "wait_post"
       THEN Head(data[p]).text # "dict"
       ELSE Head(data[p]).stats # "nested"
    /\ DocDone(p, [db |-> View(p), stats |-> stats[p], raised |-> TRUE])
    /\ Turned(p, Began(txn[p]))
    /\ UNCHANGED <<frame, fs, db, clock, nruns, run_id, files, ret, calls, now, log>>

\* complete_download_run called by the entry point `by` gives up: its UPDATE
\* waiting for the write lock, or its commit waiting for the read lock of
\* another connection.  The OperationalError leaves the entry point (main lets
\* it pass, import_data catches it and returns None), and nothing sets the
\* run's status any more.
CompleteTimeout(p, by) ==
    /\ \/ pc[p] = "update" /\ Busy(p)
       \/ pc[p] = "completing" /\ Readers(p) # {}
    /\ pc' = [pc EXCEPT ![p] = "raised"]
    /\ ret' = [ret EXCEPT ![p] = "raised"]
    /\ now' = [now EXCEPT ![p] = 0]
    /\ Abandon(p, by, pc[p] = "completing", work)
    /\ UNCHANGED <<frame, fs, db, clock, nruns, run_id, files, data, stats, held, rejected,
                   txn, calls, log>>

\* ------------------------------------------------------ other library callers

\* Largest number of calls of complete_download_run in one behaviour.
MaxCalls == 2

\* Some caller of the module completes some run of the table, while no import
\* is under way: with counters that hold an error or none, and with no
\* error_message, an empty one or one that says something.
ApiComplete ==
    /\ \A p \in Procs : pc[p] \in Finished
    /\ Len(calls) < MaxCalls
    /\ \E r \in db.download_runs,
          st \in {[ZeroStats EXCEPT !.processed = 1, !.new = 1],
                  [ZeroStats EXCEPT !.processed = 1, !.errors = 1]},
          m \in {NULL, "", "aborted"} :
        CompleteCall(r.run_id, st, m)
    /\ UNCHANGED <<frame, fs, nruns, pc, run_id, files, data, stats, held, rejected, ret, txn, log>>

\* ----------------------------------------------------------- specifications

\* The paths an invocation may be pointed at: nothing, a regular file, or a
\* directory with a listing of at most n entries.
DirStates(n) ==
    {Path(FALSE, FALSE, <<>>, FALSE), Path(TRUE, FALSE, <<>>, FALSE)}
    \cup {Path(TRUE, TRUE, d, FALSE) : d \in UNION {DirsOfSize(k) : k \in 0..n}}

\* The state before an invocation, over directory fs0 and store db0, n0 of
\* the invocations being spent.
InitProgram(fs0, db0, n0) ==
    /\ fs = fs0
    /\ db = db0
    /\ work = db
    /\ lock = 0
    /\ clock = 1
    /\ nruns = n0
    /\ pc = [p \in Procs |-> "idle"]
    /\ run_id = [p \in Procs |-> NoId]
    /\ files = [p \in Procs |-> <<>>]
    /\ data = [p \in Procs |-> <<>>]
    /\ stats = [p \in Procs |-> ZeroStats]
    /\ held = [p \in Procs |-> NoId]
    /\ rejected = [p \in Procs |-> FALSE]
    /\ ret = [p \in Procs |-> "pending"]
    /\ txn = [p \in Procs |-> "none"]
    /\ calls = <<>>
    /\ now = [p \in Procs |-> 0]
    /\ log = <<>>

\* The same, no pure function being called.
InitWith(fs0, db0, n0) ==
    /\ InitProgram(fs0, db0, n0)
    /\ frame = NoFrame

\* Directories of one file of two documents, the first with a "posted_at"
\* that is no object or with a "text" that sqlite3 cannot bind.
OddDirs ==
    {Path(TRUE, TRUE, <<[kind |-> "array", docs |-> <<d, DocFull1>>]>>, FALSE) :
        d \in {DocStrPostedAt2, DocDictText2}}

\* Two invocations are left to run, on a store that an earlier invocation has
\* left empty.  The path is one of DirStates, a directory with a hidden
\* *.json file beside at most one entry that glob.glob lists, or one of
\* OddDirs.
Init ==
    \E fs0 \in DirStates(MaxItems)
                \cup {Path(TRUE, TRUE, d, TRUE) : d \in DirsOfSize(0) \cup DirsOfSize(1)}
                \cup OddDirs :
        InitWith(fs0, EmptyStore, MaxRuns - 2)

\* One process runs the entry points, one invocation after the other.
Next ==
    \/ StartManageData(1)
    \/ StartUpdateData(1)
    \/ CommitRun(1)
    \/ OpenFile(1)
    \/ ProcessDoc(1)
    \/ Commit(1)
    \/ CallComplete(1)
    \/ Complete(1)
    \/ CompleteCommit(1)
    \/ Kill(1)
    \/ Collect(1)

Spec == Init /\ [][Next]_vars

\* The invocations, and other callers of complete_download_run between them.
NextApi == Next \/ ApiComplete

\* The directories of the invocations that other callers follow: an empty
\* one, one whose import counts no error, one whose import counts an error.
ApiDirs ==
    {Path(TRUE, TRUE, d, FALSE) :
        d \in {<<>>, <<[kind |-> "object", docs |-> <<DocFull1>>]>>,
                <<[kind |-> "array", docs |-> <<DocNoUrn>>]>>}}

InitApi == \E fs0 \in ApiDirs : InitWith(fs0, EmptyStore, MaxRuns - 2)

SpecApi == InitApi /\ [][NextApi]_vars

\* Largest number of entries in the directory that two processes import at
\* the same time.
MaxItemsConc == 2

\* Two invocations are left to run on a path of DirStates or OddDirs, the
\* earlier ones being those that left the store as it is; or three, on an
\* empty store and a directory of three files of one document each, the
\* second a sighting of the post of the first: an import that lost the
\* INSERT of the first document to another one reads the second and the
\* third inside a transaction, while the other one may end and a third
\* invocation start; or two, on an empty store and a directory of two files,
\* the first document of the first with a "text" that sqlite3 cannot bind and
\* the urn of the document of the second: an import may stand before the
\* INSERT of the first when the other one commits the post of the second.
InitConc ==
    \/ \E fs0 \in DirStates(MaxItemsConc) \cup OddDirs, db0 \in InitialStores :
            InitWith(fs0, db0, MaxRuns - 2)
    \/ InitWith(Path(TRUE, TRUE, <<[kind |-> "object", docs |-> <<DocFull1>>],
                                   [kind |-> "array", docs |-> <<DocNullStats>>],
                                   [kind |-> "array", docs |-> <<DocNested2>>]>>, FALSE),
                EmptyStore, MaxRuns - 3)
    \/ InitWith(Path(TRUE, TRUE, <<[kind |-> "array", docs |-> <<DocDictText2, DocFull1>>],
                                   [kind |-> "array", docs |-> <<DocNested2>>]>>, FALSE),
                EmptyStore, MaxRuns - 2)

\* Two processes run manage_data.py import, each with its own connection.
NextConc ==
    \E p \in Procs :
        \/ StartManageData(p)
        \/ ResumeRun(p, "main")
        \/ CommitRun(p)
        \/ RunTimeout(p, "main")
        \/ OpenFile(p)
        \/ ProcessDoc(p)
        \/ ProcessDocSelect(p)
        \/ ResumePost(p)
        \/ ResumeDownload(p)
        \/ InsertTimeout(p)
        \/ Commit(p)
        \/ CommitTimeout(p, "main")
        \/ CallComplete(p)
        \/ Complete(p)
        \/ CompleteCommit(p)
        \/ CompleteTimeout(p, "main")
        \/ Kill(p)

SpecConc == InitConc /\ [][NextConc]_vars

\* Between two imports the posts and data_downloads tables are put back as they
\* were when the behaviour began (those of the earlier import, if its run is
\* in the table), and glob.glob lists the same files in another order.
Reorder ==
    /\ pc[1] \in {"done", "raised"}
    /\ pc' = [pc EXCEPT ![1] = "idle"]
    /\ lock = 0
    /\ nruns < MaxRuns
    /\ \E perm \in Permutations(1..Len(fs.files)) :
        fs' = [fs EXCEPT !.files = [i \in 1..Len(fs.files) |-> fs.files[perm[i]]]]
    /\ db' = [(IF PriorStore.download_runs \subseteq db.download_runs
               THEN PriorStore ELSE EmptyStore) EXCEPT !.download_runs = db.download_runs]
    /\ work' = db'
    /\ UNCHANGED <<frame, lock, clock, nruns, run_id, files, data, stats, held, rejected,
                   ret, txn, calls, now, log>>

\* Largest number of entries in the directory that is imported in several
\* orders.
MaxItemsOrder == 2

\* Two imports are left to run, the second after Reorder.
InitOrder ==
    \E fs0 \in DirStates(MaxItemsOrder), db0 \in InitialStores :
        InitWith(fs0, db0, MaxRuns - 2)

\* manage_data.py import <directory>, started on the store as it was put back.
StartAgain ==
    /\ pc[1] = "idle"
    /\ StartManageData(1)

\* One process imports the same files from the same store, in any order of the
\* listing.
NextOrder ==
    \/ StartAgain
    \/ CommitRun(1)
    \/ OpenFile(1)
    \/ ProcessDoc(1)
    \/ Commit(1)
    \/ CallComplete(1)
    \/ Complete(1)
    \/ CompleteCommit(1)
    \/ Reorder

SpecOrder == InitOrder /\ [][NextOrder]_vars

\* A caller of the module calls import_directory(conn, directory, run_id) on a
\* connection of get_connection, with a run_id of its own: that of a run in
\* the table, or one that no run has.  import_directory makes no test of the
\* path: where no directory is, glob.glob lists nothing.
StartSupplied(p) ==
    /\ Begin(p)
    /\ \E rid \in generate_aws_id(PREFIX_RUN) :
        run_id' = [run_id EXCEPT ![p] = rid]
    /\ files' = [files EXCEPT ![p] = fs.files]
    /\ pc' = [pc EXCEPT ![p] = "files"]
    /\ ret' = [ret EXCEPT ![p] = "pending"]
    /\ txn' = [txn EXCEPT ![p] = "none"]
    /\ UNCHANGED <<frame, fs, db, work, lock, clock, calls, now, log>>

\* A caller of the module calls import_directory(conn, directory) on a
\* connection of get_connection, with no run_id: import_directory creates the
\* run, whatever is at the path.
StartImportDirectory(p) ==
    /\ Begin(p)
    /\ OpenRun(p, "caller")
    /\ UNCHANGED <<frame, fs, clock, calls, now, log>>

\* One process runs the import, from the command line or as a caller of
\* import_directory, with a run_id or without, who completes the run as main
\* does.
NextLib ==
    \/ StartManageData(1)
    \/ StartImportDirectory(1)
    \/ StartSupplied(1)
    \/ CommitRun(1)
    \/ OpenFile(1)
    \/ ProcessDoc(1)
    \/ Commit(1)
    \/ CallComplete(1)
    \/ Complete(1)
    \/ CompleteCommit(1)

SpecLib == Init /\ [][NextLib]_vars

\* ------------------------------------------------- get_post_urn on its own

\* The variables of the import, which a pure function leaves alone.
program == <<fs, db, work, lock, clock, nruns, pc, run_id, files, data, stats,
             held, rejected, ret, txn, calls, now, log>>

\* The import at rest, with the call fr of a pure function at hand.
InitFrame(fr) ==
    /\ InitProgram(Path(FALSE, FALSE, <<>>, FALSE), EmptyStore, 0)
    /\ frame = fr

\* What a key of a document may hold: nothing, null, "" or an identity.
UrnValues == {ABSENT, NULL, ""} \cup Urns

\* The JSON objects over these values: without "urn", with an object as
\* "urn", with a scalar as "urn".
UrnDocs ==
    {MkDoc(f, "absent", ABSENT, ABSENT, ABSENT, "dict") : f \in UrnValues}
    \cup {MkDoc(f, "dict", ABSENT, a, u, "dict") :
            f \in UrnValues, a \in UrnValues, u \in UrnValues}
    \cup {MkDoc(f, "scalar", s, ABSENT, ABSENT, "dict") :
            f \in UrnValues, s \in UrnValues \ {ABSENT}}

InitUrn ==
    \E post \in UrnDocs :
        InitFrame([fn |-> "get_post_urn", post |-> post, done |-> FALSE, out |-> NULL])

\* get_post_urn(post) returns.
CallGetPostUrn ==
    /\ frame.fn = "get_post_urn"
    /\ ~frame.done
    /\ frame' = [frame EXCEPT !.done = TRUE, !.out = get_post_urn(frame.post)]
    /\ UNCHANGED program

SpecUrn == InitUrn /\ [][CallGetPostUrn]_vars

\* ---------------------------------------------------------- content filter

\* Strings are sequences of characters. str.lower() of a character.
LowerChar(c) == IF c = "A" THEN "a" ELSE IF c = "B" THEN "b" ELSE c

\* str.lower().
lower(s) == [i \in 1..Len(s) |-> LowerChar(s[i])]

\* str.lstrip(): without the whitespace at the left end.
RECURSIVE lstrip(_)
lstrip(s) == IF s # <<>> /\ Head(s) = " " THEN lstrip(Tail(s)) ELSE s

\* str.rstrip(): without the whitespace at the right end.
RECURSIVE rstrip(_)
rstrip(s) ==
    IF s # <<>> /\ s[Len(s)] = " " THEN rstrip(SubSeq(s, 1, Len(s) - 1)) ELSE s

\* str.strip().
strip(s) == rstrip(lstrip(s))

\* The length of the first word of s, which starts with no whitespace.
RECURSIVE WordLen(_)
WordLen(s) == IF s = <<>> \/ Head(s) = " " THEN 0 ELSE 1 + WordLen(Tail(s))

\* str.split(): the words between runs of whitespace, none of them empty.
RECURSIVE split(_)
split(s) ==
    LET t == lstrip(s)
        n == WordLen(t)
    IN  IF t = <<>> THEN <<>>
        ELSE <<SubSeq(t, 1, n)>> \o split(SubSeq(t, n + 1, Len(t)))

\* ' '.join(parts).
RECURSIVE join(_)
join(parts) ==
    IF parts = <<>> THEN <<>>
    ELSE IF Len(parts) = 1 THEN parts[1]
    ELSE parts[1] \o <<" ">> \o join(Tail(parts))

Max(a, b) == IF a >= b THEN a ELSE b

Min(a, b) == IF a <= b THEN a ELSE b

\* The length of the longest common subsequence of s and t.
RECURSIVE LCS(_, _)
LCS(s, t) ==
    IF s = <<>> \/ t = <<>> THEN 0
    ELSE IF Head(s) = Head(t) THEN 1 + LCS(Tail(s), Tail(t))
    ELSE Max(LCS(Tail(s), t), LCS(s, Tail(t)))

\* rapidfuzz's fuzz.ratio, the normalized Indel similarity
\* 100 * 2 * LCS / (len(s) + len(t)), rounded down: against an integer
\* threshold the rounded score compares as the score does.
ratio(s, t) ==
    IF Len(s) + Len(t) = 0 THEN 100 ELSE (200 * LCS(s, t)) \div (Len(s) + Len(t))

\* The pieces of s2 under a window of m characters that slides over s2 from
\* its first character alone to its last character alone.
Windows(m, s2) ==
    {SubSeq(s2, Max(1, e - m + 1), Min(e, Len(s2))) : e \in 1..(Len(s2) + m - 1)}

\* The best ratio of s1, the shorter string, with a piece of s2.
partial_ratio_impl(s1, s2) ==
    LET scores == {ratio(s1, w) : w \in Windows(Len(s1), s2)}
    IN  CHOOSE x \in scores : \A y \in scores : y <= x

\* rapidfuzz's fuzz.partial_ratio(s1, s2): 100 for two empty strings, 0 for
\* one, else the best alignment of the shorter string in the longer one, both
\* ways round for strings of one length.
partial_ratio(s1, s2) ==
    IF s1 = <<>> \/ s2 = <<>> THEN (IF s1 = s2 THEN 100 ELSE 0)
    ELSE IF Len(s1) < Len(s2) THEN partial_ratio_impl(s1, s2)
    ELSE IF Len(s1) > Len(s2) THEN partial_ratio_impl(s2, s1)
    ELSE Max(partial_ratio_impl(s1, s2), partial_ratio_impl(s2, s1))

\* A post of the corpus: keys are the keys it has, "author.name" standing for
\* an "author" object with a "name".
MkPost(id, keys, text, author_username, author_name) ==
    [post_id |-> id, keys |-> keys, text |-> text,
     author_username |-> author_username, author_name |-> author_name]

\* A post with the text "ab".
PostAb == MkPost(1, {"text"}, <<"a", "b">>, <<>>, <<>>)

\* A post with the text "Ba" by the user "b".
PostBaB == MkPost(2, {"text", "author_username"}, <<"B", "a">>, <<"b">>, <<>>)

\* A post with an empty text.
PostEmpty == MkPost(3, {"text"}, <<>>, <<>>, <<>>)

\* A post without text, by an author named "a".
PostNamed == MkPost(4, {"author.name"}, <<>>, <<>>, <<"a">>)

Posts == {PostAb, PostBaB, PostEmpty, PostNamed}

\* create_searchable_text of test_content_filter_enhanced.py.
create_searchable_text(post) ==
    LET parts == (IF "text" \in post.keys THEN <<post.text>> ELSE <<>>)
                 \o (IF "author_username" \in post.keys
                     THEN <<post.author_username>> ELSE <<>>)
    IN  lower(join(parts))

\* create_searchable_text of test_filter_manual.py, whose result
\* load_posts_for_testing stores in the post as '_searchable'.
create_searchable_text_manual(post) ==
    LET parts == (IF "text" \in post.keys THEN <<post.text>> ELSE <<>>)
                 \o (IF "author_username" \in post.keys
                     THEN <<post.author_username>> ELSE <<>>)
                 \o (IF "author.name" \in post.keys
                     THEN <<post.author_name>> ELSE <<>>)
    IN  lower(join(parts))

\* The match with a score above the threshold only.
FilterMatch_Strict(filter_lower, filter_words, searchable, threshold) ==
    IF Len(filter_words) = 1
    THEN partial_ratio(filter_lower, searchable) > threshold
    ELSE \A i \in 1..Len(filter_words) :
            partial_ratio(filter_words[i], searchable) > threshold

\* Whether a query, split into filter_words, matches the text searchable.
FilterMatch(filter_lower, filter_words, searchable, threshold) ==
    IF Len(filter_words) = 1
    THEN partial_ratio(filter_lower, searchable) >= threshold
    ELSE \A i \in 1..Len(filter_words) :
            partial_ratio(filter_words[i], searchable) >= threshold

\* Sequence s from its last element to its first.
Reverse(s) == [i \in 1..Len(s) |-> s[Len(s) + 1 - i]]

\* The filter putting each matched post in front of those matched before.
test_content_filter_enhanced_Prepend(filter_text, posts, threshold) ==
    IF filter_text = <<>> THEN posts
    ELSE LET filter_lower == strip(lower(filter_text))
             filter_words == split(filter_lower)
             matched(post) ==
                FilterMatch(filter_lower, filter_words,
                            create_searchable_text(post), threshold)
         IN  Reverse(SelectSeq(posts, matched))

test_content_filter_enhanced(filter_text, posts, threshold) ==
    IF filter_text = <<>> THEN posts
    ELSE LET filter_lower == strip(lower(filter_text))
             filter_words == split(filter_lower)
             matched(post) ==
                FilterMatch(filter_lower, filter_words,
                            create_searchable_text(post), threshold)
         IN  SelectSeq(posts, matched)

test_filter(posts, filter_text, threshold) ==
    IF filter_text = <<>> THEN posts
    ELSE LET filter_lower == strip(lower(filter_text))
             filter_words == split(filter_lower)
             matched(post) ==
                LET searchable == create_searchable_text_manual(post)
                IN  /\ searchable # <<>>
                    /\ FilterMatch(filter_lower, filter_words, searchable, threshold)
         IN  SelectSeq(posts, matched)

\* Python's `sub in s` for strings.
Contains(sub, s) ==
    \E i \in 0..Len(s) :
        i + Len(sub) <= Len(s) /\ SubSeq(s, i + 1, i + Len(sub)) = sub

\* test_content_filter of test_content_filter.py, the plain substring filter.
test_content_filter(filter_text, posts) ==
    LET filter_lower == lower(filter_text)
        matched(post) == Contains(filter_lower, create_searchable_text(post))
    IN  SelectSeq(posts, matched)

\* The characters of a query.
QueryChars == {"a", "b", "A", " "}

\* The longest query and the longest corpus.
MaxQuery == 3
MaxCorpus == 2

\* The thresholds: the ends of the 0-100 range, the default, one between and
\* one above the range.
Thresholds == {0, 60, 80, 100, 101}

Queries == UNION {SeqsOfLen(QueryChars, n) : n \in 0..MaxQuery}

Corpora == UNION {SeqsOfLen(Posts, n) : n \in 0..MaxCorpus}

InitFilter ==
    \E fn \in {"test_content_filter_enhanced", "test_filter"}, q \in Queries,
       c \in Corpora, t \in Thresholds :
        InitFrame([fn |-> fn, filter_text |-> q, posts |-> c, threshold |-> t,
                   done |-> FALSE, out |-> <<>>])

\* test_content_filter_enhanced(filter_text, posts, threshold) returns.
CallEnhanced ==
    /\ frame.fn = "test_content_filter_enhanced"
    /\ ~frame.done
    /\ frame' = [frame EXCEPT !.done = TRUE,
                   !.out = test_content_filter_enhanced(frame.filter_text, frame.posts,
                                                          frame.threshold)]
    /\ UNCHANGED program

\* test_filter(posts, filter_text, threshold) returns.
CallManual ==
    /\ frame.fn = "test_filter"
    /\ ~frame.done
    /\ frame' = [frame EXCEPT !.done = TRUE,
                   !.out = test_filter(frame.posts, frame.filter_text, frame.threshold)]
    /\ UNCHANGED program

NextFilter == CallEnhanced \/ CallManual

SpecFilter == InitFilter /\ [][NextFilter]_vars

\* -------------------------------------------------------------- db_utils.py

\* An Optional[str]: a string, or None.
Some(v) == [given |-> TRUE, value |-> v]

None == [given |-> FALSE, value |-> <<>>]

\* The prefix constants, spelled as strings of characters.
Prefixes ==
    {<<"p">>, <<"d", "l">>, <<"r", "u", "n">>, <<"p", "r", "f">>, <<"t", "a", "g">>,
     <<"p", "f", "t">>, <<"p", "t", "g">>, <<"a", "c", "t">>, <<"m", "e", "d">>}

\* The characters of [a-z] and of [0-9a-f].
LowerLetters ==
    {"a", "b", "c", "d", "e", "f", "g", "h", "i", "j", "k", "l", "m", "n", "o", "p",
     "q", "r", "s", "t", "u", "v", "w", "x", "y", "z"}

HexDigits == {"0", "1", "2", "3", "4", "5", "6", "7", "8", "9", "a", "b", "c", "d", "e", "f"}

\* The characters of secrets.token_hex(4).
HexLen == 8

\* The values of secrets.token_hex(4) over two of the sixteen digits.
TokenHex == SeqsOfLen({"0", "f"}, HexLen)

\* The identifier without its separator.
format_aws_id_NoSeparator(prefix, random_hex) == prefix \o random_hex

\* f"{prefix}-{random_hex}", what generate_aws_id returns for the drawn hex.
format_aws_id(prefix, random_hex) == prefix \o <<"-">> \o random_hex

\* re.match(r'^([a-z]{1,3})-([0-9a-f]{8})$', id_str): group 1 of the match, or
\* None. '$' matches at the end of the string and before a last line feed.
re_match(id_str) ==
    LET ks == {k \in 1..3 :
                /\ Len(id_str) \in {k + 1 + HexLen, k + 2 + HexLen}
                /\ \A i \in 1..k : id_str[i] \in LowerLetters
                /\ id_str[k + 1] = "-"
                /\ \A i \in (k + 2)..(k + 1 + HexLen) : id_str[i] \in HexDigits
                /\ Len(id_str) = k + 2 + HexLen => id_str[Len(id_str)] = "\n"}
    IN  IF ks = {} THEN None ELSE Some(SubSeq(id_str, 1, CHOOSE k \in ks : TRUE))

\* validate_aws_id comparing the prefix whenever one is given.
validate_aws_id_AnyGiven(id_str, expected_prefix) ==
    LET match == re_match(id_str)
    IN  IF ~match.given THEN FALSE
        ELSE IF expected_prefix.given /\ match.value # expected_prefix.value THEN FALSE
        ELSE TRUE

validate_aws_id(id_str, expected_prefix) ==
    LET match == re_match(id_str)
    IN  IF ~match.given THEN FALSE
        ELSE IF expected_prefix.given /\ expected_prefix.value # <<>>
                /\ match.value # expected_prefix.value THEN FALSE
        ELSE TRUE

extract_prefix(id_str) == re_match(id_str)

\* The strings validate_aws_id is tried on: a prefix, a separator, a hex part
\* and an end.
IdPrefixes ==
    {<<>>, <<"p">>, <<"d", "l">>, <<"r", "u", "n">>, <<"p", "o", "s", "t">>, <<"P">>,
     <<"p", "1">>}

IdSeparators == {<<"-">>, <<>>, <<"_">>, <<"-", "-">>}

IdHexParts ==
    {<<"a", "1", "b", "2", "c", "3", "d", "4">>,
     <<"a", "1", "b", "2", "c", "3", "d">>,
     <<"a", "1", "b", "2", "c", "3", "d", "4", "5">>,
     <<"A", "1", "B", "2", "C", "3", "D", "4">>,
     <<"a", "1", "b", "2", "c", "3", "d", "g">>}

IdEnds == {<<>>, <<"\n">>, <<" ">>}

IdStrings ==
    {p \o sep \o h \o e : p \in IdPrefixes, sep \in IdSeparators, h \in IdHexParts,
                          e \in IdEnds}

\* The expected prefixes: none, the empty string, and four strings.
ExpectedPrefixes ==
    {None} \cup {Some(v) : v \in {<<>>, <<"p">>, <<"d", "l">>, <<"P">>, <<"p", "o", "s", "t">>}}

InitId ==
    \/ \E p \in Prefixes :
        InitFrame([fn |-> "generate_aws_id", prefix |-> p, done |-> FALSE, out |-> <<>>])
    \/ \E i \in IdStrings, e \in ExpectedPrefixes :
        InitFrame([fn |-> "validate_aws_id", id_str |-> i, expected_prefix |-> e,
                   done |-> FALSE, out |-> FALSE])

\* generate_aws_id(prefix) returns, secrets.token_hex(4) having drawn a value.
CallGenerate ==
    /\ frame.fn = "generate_aws_id"
    /\ ~frame.done
    /\ \E random_hex \in TokenHex :
        frame' = [frame EXCEPT !.done = TRUE, !.out = format_aws_id(frame.prefix, random_hex)]
    /\ UNCHANGED program

\* validate_aws_id(id_str, expected_prefix) returns.
CallValidate ==
    /\ frame.fn = "validate_aws_id"
    /\ ~frame.done
    /\ frame' = [frame EXCEPT !.done = TRUE,
                   !.out = validate_aws_id(frame.id_str, frame.expected_prefix)]
    /\ UNCHANGED program

NextId == CallGenerate \/ CallValidate

SpecId == InitId /\ [][NextId]_vars

\* ------------------------------------------------------------------- claims

\* The documents import_directory iterates over in file f.
DocsOfFile(f) == IF f.kind \in {"array", "object"} THEN f.docs ELSE <<>>

\* The places <<file, element>> of the directory's documents.
DocPlaces ==
    UNION {{<<i, j>> : j \in 1..Len(DocsOfFile(fs.files[i]))} : i \in 1..Len(fs.files)}

\* The number of documents of the directory whose identity resolves.
NumResolvable ==
    Cardinality({ij \in DocPlaces : Resolves(DocsOfFile(fs.files[ij[1]])[ij[2]])})

\* The data_downloads rows of run rid in the committed store.
DownloadsOf(rid) == {o \in db.data_downloads : o.run_id = rid}

\* A step in which process p takes up the next document of the open file.
DocStep(p) ==
    /\ pc[p] = "docs"
    /\ stats'[p].processed = stats[p].processed + 1

\* The document such a step takes up.
ThisDoc(p) == Head(data[p])

\* What a step adds to the data_downloads table as process p sees it.
NewDownloads(p) == View(p)'.data_downloads \ View(p).data_downloads

\* How much a step adds to counter k of process p.
Added(p, k) == stats'[p][k] - stats[p][k]

\* C1: importing the same directory again, the store untouched in between,
\* returns new = 0 and as many duplicates as the directory has documents whose
\* identity resolves, leaves the posts as the first import left them, and adds
\* one data_downloads row per such document.
C1_ReimportIdempotent ==
    \A i \in 1..(Len(log) - 1) :
        /\ log[i + 1].stats.new = 0
        /\ log[i + 1].stats.duplicates = NumResolvable
        /\ log[i + 1].posts = log[i].posts
        /\ Cardinality(DownloadsOf(log[i + 1].run_id)) = NumResolvable

\* C3: a document whose identity resolves gets exactly one data_downloads row,
\* of the current run and of the document's post, be the post new or not.
C3_OneObservation ==
    [][\A p \in Procs :
        DocStep(p) /\ Resolves(ThisDoc(p)) =>
            /\ Cardinality(NewDownloads(p)) = 1
            /\ \A o \in NewDownloads(p) :
                /\ o.run_id = run_id[p]
                /\ \E r \in View(p)'.posts :
                    r.post_id = o.post_id /\ r.urn = get_post_urn(ThisDoc(p))]_vars

\* C4: a document without a usable identity counts as processed and as an
\* error, as nothing else, and writes no row; no post has an empty urn.
C4_UnresolvableDropped ==
    /\ [][\A p \in Procs :
            DocStep(p) /\ ThisDoc(p).is_dict /\ ~Resolves(ThisDoc(p)) =>
                /\ stats'[p] = Bump(Bump(stats[p], "processed"), "errors")
                /\ View(p)' = View(p)]_vars
    /\ [](\A r \in db.posts \cup work.posts : Truthy(r.urn))

\* C4, its case: the import of a file of one document without identity has
\* gone through the file.
C4_Witness ==
    /\ fs.files = <<[kind |-> "array", docs |-> <<DocNoUrn>>]>>
    /\ pc[1] = "files"
    /\ files[1] = <<>>
    /\ stats[1] = [processed |-> 1, new |-> 0, duplicates |-> 0, errors |-> 1]
    /\ db.posts = {} /\ work.posts = {}

\* C5: every document that is processed adds one to exactly one of new,
\* duplicates and errors, so that an import none of whose files failed as a
\* whole ends with processed = new + duplicates + errors.
C5_ExclusiveOutcomes ==
    [][\A p \in Procs :
        DocStep(p) =>
            /\ Added(p, "new") + Added(p, "duplicates") + Added(p, "errors") = 1
            /\ \A k \in {"new", "duplicates", "errors"} : Added(p, k) \in {0, 1}]_vars

\* C9: the import of a directory without files returns counters that are all
\* zero, writes no post and no data_downloads row, and leaves a completed run.
C9_EmptyDirectory ==
    \A p \in Procs :
        pc[p] = "done" /\ fs.isdir /\ fs.files = <<>> =>
            /\ ret[p] = "stats"
            /\ stats[p] = ZeroStats
            /\ db.posts = {} /\ db.data_downloads = {}
            /\ \E r \in db.download_runs : r.run_id = run_id[p] /\ r.status = "completed"

\* A step in which process p opens the next file of the listing.
FileStep(p) ==
    /\ pc[p] = "files"
    /\ files[p] # <<>>
    /\ pc'[p] # "killed"
    /\ files'[p] # files[p]

\* C10: a malformed file, one that is no JSON or whose top-level value is
\* neither array nor object, is skipped as a whole, counts one error and
\* nothing as processed, and the import goes on.
C10_MalformedFile ==
    [][\A p \in Procs :
        FileStep(p) /\ Head(files[p]).kind \in {"unreadable", "scalar"} =>
            /\ stats'[p] = Bump(stats[p], "errors")
            /\ pc'[p] = "files"]_vars

\* C2: every post carries the urn that get_post_urn resolves from its
\* document, and no two posts carry the same urn, neither in the committed
\* store nor in the image of an open transaction, however the imports
\* interleave; and a document whose urn the connection finds stored inserts
\* no post: it counts as a duplicate.
C2_UrnUnique ==
    /\ [](\A d \in {db, work} :
            /\ \A r \in d.posts : r.urn = get_post_urn(r.raw_json)
            /\ \A r1, r2 \in d.posts : r1.urn = r2.urn => r1 = r2)
    /\ [][\A p \in Procs :
            (/\ DocStep(p)
             /\ Resolves(ThisDoc(p))
             /\ select_post(View(p), get_post_urn(ThisDoc(p))) # {}) =>
                /\ View(p)'.posts = View(p).posts
                /\ Added(p, "duplicates") = 1
                /\ Added(p, "new") = 0]_vars

\* C2, its case: two imports met the same new document; the first stored the
\* post, the insert of the second was rejected and it went on with the file.
C2_Witness ==
    /\ fs.files = <<[kind |-> "array", docs |-> <<DocFull1, DocNoUrn>>]>>
    /\ stats[1].new = 1
    /\ stats[2] = [processed |-> 2, new |-> 0, duplicates |-> 0, errors |-> 2]
    /\ Cardinality({r \in db.posts : r.urn = "urn:1"}) = 1

\* The calls of complete_download_run made for run rid, by their place.
CallsOf(rid) == {i \in 1..Len(calls) : calls[i].run_id = rid}

\* The last call of complete_download_run made for run rid.
LastCall(rid) == calls[CHOOSE i \in CallsOf(rid) : \A j \in CallsOf(rid) : j <= i]

\* C6: the status of a run is what the arguments of the last
\* complete_download_run call for it decide, failed if the counters hold an
\* error or the message is non-empty and completed otherwise; a run without
\* such a call is running.
C6_StatusFromArguments ==
    \A r \in db.download_runs :
        IF CallsOf(r.run_id) = {}
        THEN r.status = "running"
        ELSE r.status = IF LastCall(r.run_id).errors > 0
                           \/ Truthy(LastCall(r.run_id).error_message)
                        THEN "failed" ELSE "completed"

\* C6, its case: runs completed with no error counted, one with a message, one
\* with an empty message.
C6_Witness ==
    \E r1, r2 \in db.download_runs :
        /\ CallsOf(r1.run_id) # {} /\ CallsOf(r2.run_id) # {}
        /\ LastCall(r1.run_id).errors = 0
        /\ LastCall(r1.run_id).error_message = "aborted"
        /\ r1.status = "failed"
        /\ LastCall(r2.run_id).errors = 0
        /\ LastCall(r2.run_id).error_message = ""
        /\ r2.status = "completed"

\* C7: a run that has reached a terminal status keeps its row as it is; a
\* further complete_download_run call for it changes nothing.
C7_CompleteOnce ==
    [][\A r \in db.download_runs : r.status # "running" => r \in db'.download_runs]_vars

\* C8: the run of an import that has come to its end without being killed has
\* a terminal status.
C8_RunReachesTerminal ==
    \A p \in Procs :
        pc[p] \in {"done", "raised"} /\ run_id[p] # NoId =>
            \A r \in db.download_runs : r.run_id = run_id[p] => r.status # "running"

\* C11: a file that cannot be read or parsed counts one error and nothing
\* else, writes no row, and leaves the files after it to be imported as they
\* would be without it: the step changes the error counter and nothing else
\* that the rest of the import reads.
C11_BadFileIsolated ==
    [][\A p \in Procs :
        FileStep(p) /\ Head(files[p]).kind = "unreadable" =>
            /\ stats'[p] = Bump(stats[p], "errors")
            /\ View(p)' = View(p)
            /\ files'[p] = Tail(files[p])
            /\ pc'[p] = "files"
            /\ run_id'[p] = run_id[p]]_vars

\* C11, its case: the file after an unreadable one has been imported, with its
\* post and its data_downloads row.
C11_Witness ==
    /\ fs.files = <<UnreadableFile, [kind |-> "object", docs |-> <<DocFull1>>]>>
    /\ pc[1] = "complete"
    /\ stats[1] = [processed |-> 1, new |-> 1, duplicates |-> 0, errors |-> 1]
    /\ {r.urn : r \in db.posts} = {"urn:1"}
    /\ Cardinality(db.data_downloads) = 1

\* The number of data_downloads rows that the import of log entry e left for
\* the post of urn u.
DownloadsPerUrn(e, u) ==
    Cardinality({o \in e.downloads : \E r \in e.posts : r.post_id = o.post_id /\ r.urn = u})

\* Whether the imports of log entries e1 and e2 came to the same result: the
\* counters, the urns of the posts, the number of data_downloads rows per post.
SameOutcome(e1, e2) ==
    /\ e1.stats = e2.stats
    /\ {r.urn : r \in e1.posts} = {r.urn : r \in e2.posts}
    /\ \A u \in Urns : DownloadsPerUrn(e1, u) = DownloadsPerUrn(e2, u)

\* C12: from one store and one set of files, the imports come to the same
\* counters, post urns and data_downloads per post in every order of the
\* files; the imports in which an insert was rejected, generate_aws_id having
\* drawn an identifier in use, are left aside, their result depending on the
\* draw in any order.
C12_OrderIndependent ==
    \A i, j \in 1..Len(log) :
        ~log[i].rejected /\ ~log[j].rejected => SameOutcome(log[i], log[j])

\* A step in which the INSERT INTO posts of process p, which waited for the
\* import of another process, is rejected: sqlite3 could bind its values,
\* SQLite executes it, and that import has committed a post of the same urn.
PostInsertRejected(p) ==
    /\ pc[p] = "wait_post"
    /\ lock = 0
    /\ Head(data[p]).text # "dict"
    /\ \E r \in db.posts : r.urn = get_post_urn(Head(data[p]))
    /\ pc'[p] \notin {"wait_post", "killed"}

\* A step in which the INSERT INTO posts of process p, whose lookup missed the
\* urn, fails on the post that another import has inserted for the urn: the
\* post is committed and the INSERT is rejected, or it is in the open
\* transaction of the other import and the INSERT gives up behind its lock.
PostInsertLost(p) ==
    /\ pc[p] = "wait_post"
    /\ pc'[p] \in {"docs", "files"}
    /\ Head(data[p]).text # "dict"
    /\ Added(p, "new") = 0
    /\ \E r \in db.posts \cup (IF Busy(p) THEN work.posts ELSE {}) :
            r.urn = get_post_urn(Head(data[p]))

DownloadInsertFails(p) ==
    /\ pc[p] \in {"docs", "wait_post", "wait_download"}
    /\ pc'[p] \in {"docs", "files"}
    /\ Resolves(ThisDoc(p))
    /\ ThisDoc(p).stats # NULL
    /\ pc[p] = "wait_download" \/ Added(p, "new") + Added(p, "duplicates") = 1
    /\ NewDownloads(p) = {}

\* A step in which import_directory of process p commits and returns.
CommitStep(p) == pc[p] = "files" /\ pc'[p] = "complete"

\* C14: a data_downloads insert that fails counts one error, leaves the post
\* of the document and every other post in place, and the import goes on with
\* the next document; the commit makes the posts durable as they are.
C14_ObservationFailureKeepsPost ==
    /\ [][\A p \in Procs :
            DownloadInsertFails(p) =>
                /\ Added(p, "errors") = 1
                /\ View(p).posts \subseteq View(p)'.posts
                /\ \E r \in View(p)'.posts : r.urn = get_post_urn(ThisDoc(p))
                /\ data'[p] = Tail(data[p])
                /\ pc'[p] = IF data'[p] = <<>> THEN "files" ELSE "docs"]_vars
    /\ [][\A p \in Procs : CommitStep(p) => db'.posts = View(p).posts]_vars

\* C15: no step deletes a post or changes a column of a post, neither in the
\* committed store nor in the transaction of an import that goes on (a kill
\* and a commit that gives up lose the rows that were never committed), also
\* when a document with another payload arrives for the post; every post that
\* appears starts with is_read and is_marked false.
C15_PostsFrame ==
    [][/\ db.posts \subseteq db'.posts
       /\ \A p \in Procs :
            lock = p /\ pc'[p] \notin {"killed", "raised"} => work.posts \subseteq work'.posts
       /\ \A r \in (db'.posts \cup work'.posts) \ (db.posts \cup work.posts) :
            ~r.is_read /\ ~r.is_marked]_vars

\* C15, its case: an import has committed a new post and a sighting, with
\* another payload, of the post that the store held and a reader had marked.
C15_Witness ==
    /\ fs.files = <<[kind |-> "array", docs |-> <<DocNested2, DocNullStats>>]>>
    /\ \E i \in 1..Len(log) :
        log[i].stats = [processed |-> 2, new |-> 1, duplicates |-> 1, errors |-> 1]
    /\ PriorStore.posts \subseteq db.posts
    /\ \E r \in db.posts : r.urn = "urn:2" /\ ~r.is_read /\ ~r.is_marked

\* The imports, by their place in the log, that returned without an error
\* and whose files hold a document of urn u.
CleanImportsOf(u) ==
    {i \in 1..Len(log) :
        /\ log[i].stats.errors = 0
        /\ \E k \in 1..Len(log[i].files) :
            \E j \in 1..Len(DocsOfFile(log[i].files[k])) :
                LET post == DocsOfFile(log[i].files[k])[j]
                IN  Resolves(post) /\ get_post_urn(post) = u}

\* The data_downloads rows of the post of urn u in the committed store.
DownloadsOfUrn(u) ==
    {o \in db.data_downloads : \E r \in db.posts : r.post_id = o.post_id /\ r.urn = u}

\* C16: no step updates or deletes a data_downloads row, neither in the
\* committed store nor in the transaction of an import; a post that k imports
\* without error have met has at least k data_downloads rows.
C16_ObservationsAppendOnly ==
    /\ [][/\ db.data_downloads \subseteq db'.data_downloads
          /\ \A p \in Procs :
                lock = p /\ pc'[p] # "killed" => work.data_downloads \subseteq work'.data_downloads]_vars
    /\ [](\A u \in Urns : Cardinality(DownloadsOfUrn(u)) >= Cardinality(CleanImportsOf(u)))

\* C16, its case: two imports without error have met the post of urn:1, and
\* it has a data_downloads row of each.
C16_Witness ==
    /\ Cardinality(CleanImportsOf("urn:1")) = 2
    /\ Cardinality({o.run_id : o \in DownloadsOfUrn("urn:1")}) = 2
    /\ \E r \in db.download_runs : r.status = "completed"

\* Whether every data_downloads row of store d has exactly one post and
\* exactly one run in d.
Referenced(d) ==
    \A o \in d.data_downloads :
        /\ Cardinality({r \in d.posts : r.post_id = o.post_id}) = 1
        /\ Cardinality({r \in d.download_runs : r.run_id = o.run_id}) = 1

\* C17: in the committed store, and in the transaction of an import, every
\* data_downloads row has exactly one post and exactly one run, whatever
\* run_id import_directory was given; and the row that a turn of
\* import_directory writes is a row of the post of the document's urn and of
\* the run of the import.
C17_ReferentialIntegrity ==
    /\ [](Referenced(db) /\ Referenced(work))
    /\ [][\A p \in Procs :
            pc[p] \in {"docs", "wait_post", "wait_download"} =>
                \A o \in NewDownloads(p) :
                    /\ o.run_id = run_id[p]
                    /\ \E r \in View(p)'.posts :
                        r.post_id = o.post_id /\ r.urn = get_post_urn(ThisDoc(p))]_vars

\* C17, its case: import_directory was given a run_id that no run has, stored
\* the post of its document, and was refused the data_downloads row.
C17_Witness ==
    /\ pc[1] = "complete"
    /\ run_id[1] \notin {r.run_id : r \in db.download_runs}
    /\ stats[1] = [processed |-> 1, new |-> 1, duplicates |-> 0, errors |-> 1]
    /\ rejected[1]
    /\ Cardinality(db.posts) = 1
    /\ db.data_downloads = {}

\* The candidates of a document's identity: its full_urn, the two members of
\* a composite urn, a scalar urn.
Candidates(post) ==
    {post.full_urn}
    \cup (IF post.urn_kind = "dict" THEN {post.activity_urn, post.ugcPost_urn}
          ELSE IF post.urn_kind = "scalar" THEN {post.urn}
          ELSE {})

\* C18: get_post_urn returns the full_urn if that is non-empty; else, of a
\* composite urn, the activity_urn if non-empty and else the ugcPost_urn; else
\* a scalar urn; and what it returns is no usable identity exactly when no
\* candidate is present and non-empty.
C18_ResolutionOrder ==
    (frame.fn = "get_post_urn" /\ frame.done) =>
        LET post == frame.post
            out == frame.out
            other == ~Truthy(post.full_urn)
        IN  /\ Truthy(post.full_urn) => out = post.full_urn
            /\ (other /\ post.urn_kind = "dict" /\ Truthy(post.activity_urn))
                    => out = post.activity_urn
            /\ (other /\ post.urn_kind = "dict" /\ ~Truthy(post.activity_urn)
                      /\ Truthy(post.ugcPost_urn))
                    => out = post.ugcPost_urn
            /\ (other /\ post.urn_kind = "scalar" /\ Truthy(post.urn))
                    => out = post.urn
            /\ ~Truthy(out) <=> (\A c \in Candidates(post) : ~Truthy(c))

\* C18, its case: a document with a null full_urn and a composite urn holding
\* both members resolved to the activity_urn.
C18_Witness ==
    /\ frame.fn = "get_post_urn"
    /\ frame.post.full_urn = NULL
    /\ frame.post.urn_kind = "dict"
    /\ frame.post.activity_urn = "urn:1"
    /\ frame.post.ugcPost_urn = "urn:2"
    /\ frame.done
    /\ frame.out = "urn:1"

\* Whether a call of one of the two filters has returned.
Filtered == frame.fn \in {"test_content_filter_enhanced", "test_filter"} /\ frame.done

\* C19: a filter called with an empty query or one of whitespace only returns
\* every post of the corpus in the original order, whatever the posts and the
\* threshold.
C19_BlankQueryReturnsAll ==
    (Filtered /\ \A i \in 1..Len(frame.filter_text) : frame.filter_text[i] = " ")
        => frame.out = frame.posts

\* The places <<i, j>> of the words of query q: its longest runs of
\* characters other than whitespace.
WordSpans(q) ==
    {ij \in (1..Len(q)) \X (1..Len(q)) :
        /\ ij[1] <= ij[2]
        /\ \A k \in ij[1]..ij[2] : q[k] # " "
        /\ ij[1] = 1 \/ q[ij[1] - 1] = " "
        /\ ij[2] = Len(q) \/ q[ij[2] + 1] = " "}

\* The searchable text the filter of the call at hand reads for a post.
SearchableOf(post) ==
    IF frame.fn = "test_filter" THEN create_searchable_text_manual(post)
    ELSE create_searchable_text(post)

\* Whether every word of the query at hand, taken alone and in lower case,
\* scores at least the threshold against the searchable text of post.
EveryWordScores(post) ==
    \A ij \in WordSpans(frame.filter_text) :
        partial_ratio(lower(SubSeq(frame.filter_text, ij[1], ij[2])), SearchableOf(post))
            >= frame.threshold

\* C20: for a query of two or more words, the filters return exactly the
\* posts against whose searchable text every word alone scores at least the
\* threshold; the order of the words and their places in the text play no role.
C20_EveryWordMustScore ==
    (Filtered /\ Cardinality(WordSpans(frame.filter_text)) >= 2)
        => frame.out = SelectSeq(frame.posts, EveryWordScores)

\* Whether s is t with some of its elements left out: the elements of s are
\* found in t one after the other.
RECURSIVE IsSubsequence(_, _)
IsSubsequence(s, t) ==
    IF s = <<>> THEN TRUE
    ELSE IF t = <<>> THEN FALSE
    ELSE IF Head(s) = Head(t) THEN IsSubsequence(Tail(s), Tail(t))
    ELSE IsSubsequence(s, Tail(t))

\* C21: what a filter returns is the corpus with some posts left out: every
\* returned post is one of the corpus, none is returned more often than the
\* corpus holds it, and the returned posts stand in the order of the corpus.
C21_OrderedSubsequence == Filtered => IsSubsequence(frame.out, frame.posts)

\* C21, its case: the two posts of a corpus both match the query and came
\* back in the order of the corpus.
C21_Witness ==
    /\ frame.fn = "test_content_filter_enhanced"
    /\ frame.done
    /\ frame.filter_text = <<"a">>
    /\ frame.threshold = 80
    /\ frame.posts = <<PostBaB, PostAb>>
    /\ frame.out = <<PostBaB, PostAb>>

\* C22: for a non-empty query and a threshold of at most 100,
\* test_content_filter_enhanced returns every post the substring filter
\* test_content_filter returns; and for a query of one word it returns exactly
\* the posts against whose searchable text the word scores at least the
\* threshold.
C22_FuzzyCoversSubstring ==
    (frame.fn = "test_content_filter_enhanced" /\ frame.done) =>
        /\ (frame.filter_text # <<>> /\ frame.threshold <= 100)
                => IsSubsequence(test_content_filter(frame.filter_text, frame.posts),
                                 frame.out)
        /\ Cardinality(WordSpans(frame.filter_text)) = 1
                => frame.out = SelectSeq(frame.posts, EveryWordScores)

\* C22, its case: at the threshold 100 the substring filter finds the query
\* "A " in the searchable text "ba b" only, and the fuzzy filter returned that
\* post and the post "ab", against which the word "a" scores 100.
C22_Witness ==
    /\ frame.fn = "test_content_filter_enhanced"
    /\ frame.done
    /\ frame.filter_text = <<"A", " ">>
    /\ frame.threshold = 100
    /\ frame.posts = <<PostAb, PostBaB>>
    /\ test_content_filter(frame.filter_text, frame.posts) = <<PostBaB>>
    /\ frame.out = <<PostAb, PostBaB>>

\* C23: a token of generate_aws_id(p), p one of the nine prefix constants, is
\* p, '-' and 8 lowercase hex characters; validate_aws_id accepts it with p and
\* with no prefix, rejects it with every other constant, and extract_prefix
\* gives back p.
C23_IdentifierRoundTrip ==
    (frame.fn = "generate_aws_id" /\ frame.done) =>
        LET p == frame.prefix
            token == frame.out
        IN  /\ Len(token) = Len(p) + 9
            /\ SubSeq(token, 1, Len(p)) = p
            /\ token[Len(p) + 1] = "-"
            /\ \A i \in (Len(p) + 2)..(Len(p) + 9) : token[i] \in HexDigits
            /\ validate_aws_id(token, Some(p))
            /\ validate_aws_id(token, None)
            /\ \A q \in Prefixes \ {p} : ~validate_aws_id(token, Some(q))
            /\ extract_prefix(token) = Some(p)

\* C23, its case: generate_aws_id('dl') returned 'dl-0f0f0f0f'.
C23_Witness ==
    /\ frame.fn = "generate_aws_id"
    /\ frame.done
    /\ frame.prefix = <<"d", "l">>
    /\ frame.out = <<"d", "l", "-", "0", "f", "0", "f", "0", "f", "0", "f">>

\* Whether string t is 1 to 3 lowercase letters, one '-' and 8 characters of
\* 0-9a-f, and nothing else.
WellFormedId(t) ==
    \E k \in 1..3 :
        /\ Len(t) = k + 9
        /\ \A i \in 1..k : t[i] \in LowerLetters
        /\ t[k + 1] = "-"
        /\ \A i \in (k + 2)..(k + 9) : t[i] \in HexDigits

\* The characters of t before its first '-', all of t if it has none.
RECURSIVE PrefixSegment(_)
PrefixSegment(t) ==
    IF t = <<>> \/ Head(t) = "-" THEN <<>> ELSE <<Head(t)>> \o PrefixSegment(Tail(t))

\* C24: validate_aws_id(token, expected) is true exactly when the token is 1 to
\* 3 lowercase letters, one '-' and 8 characters of 0-9a-f, and, an expected
\* prefix being given, the empty string included, the token's prefix is equal
\* to it.
C24_ValidateExactly ==
    (frame.fn = "validate_aws_id" /\ frame.done) =>
        (frame.out <=>
            /\ WellFormedId(frame.id_str)
            /\ frame.expected_prefix.given
                    => PrefixSegment(frame.id_str) = frame.expected_prefix.value)

\* C25: an entry point started on a directory that does not exist ends at
\* once, reporting the error without raising (main prints it, import_data
\* returns None), and writes nothing: no run, post or data_downloads row.
C25_MissingDirectory ==
    [][(nruns' = nruns + 1 /\ ~fs.exists) =>
            /\ db' = db
            /\ work' = work
            /\ \E p \in Procs :
                /\ pc'[p] = "done"
                /\ ret'[p] \in {"not_found", "None"}
                /\ run_id'[p] = NoId
                /\ \A q \in Procs \ {p} : pc'[q] = pc[q] /\ ret'[q] = ret[q]]_vars

\* C25, its case: the directory is missing, main has reported that it was not
\* found, import_data has then returned None, and the store is as it was.
C25_Witness ==
    /\ ~fs.exists
    /\ pc[1] = "done"
    /\ ret[1] = "None"
    /\ nruns = MaxRuns
    /\ db = EmptyStore
    /\ work = db

\* The identities that resolve among the documents of the files fl.
UrnsOfFiles(fl) ==
    {get_post_urn(DocsOfFile(fl[kj[1]])[kj[2]]) :
        kj \in {x \in (1..Len(fl)) \X (1..MaxItems) :
                    /\ x[2] <= Len(DocsOfFile(fl[x[1]]))
                    /\ Resolves(DocsOfFile(fl[x[1]])[x[2]])}}

\* The posts in the store when the i-th import of the log began: process 1
\* running alone, those the import before it left.
PostsBefore(i) == IF i = 1 THEN {} ELSE log[i - 1].posts

\* C26: an import in which no insert was rejected counts as new exactly the
\* distinct identities of its documents that the store did not hold when it
\* began, whatever the number of documents and files an identity occurs in;
\* the later occurrences are duplicates.
C26_FirstOccurrenceIsNew ==
    \A i \in 1..Len(log) :
        ~log[i].rejected =>
            log[i].stats.new =
                Cardinality(UrnsOfFiles(log[i].files) \ {r.urn : r \in PostsBefore(i)})

\* Whether no counter of process p goes down in a step of its import.
CountersGrow(p) ==
    (pc[p] \notin Finished /\ pc'[p] # "killed") =>
        \A k \in {"processed", "new", "duplicates", "errors"} : stats'[p][k] >= stats[p][k]

\* C27 as stated: at every point of an import, also inside the processing of
\* a document, new + duplicates <= processed <= new + duplicates + errors.
C27_BoundsAtEveryPoint ==
    \A p \in Procs :
        /\ stats[p].new + stats[p].duplicates <= stats[p].processed
        /\ stats[p].processed <= stats[p].new + stats[p].duplicates + stats[p].errors

\* C27: new + duplicates <= processed at every point of an import, and
\* processed <= new + duplicates + errors whenever no document is being
\* processed: between two documents, between two files and on return; no counter
\* goes down during an import.
C27_BoundsBetweenDocuments ==
    /\ [](\A p \in Procs :
            /\ stats[p].new + stats[p].duplicates <= stats[p].processed
            /\ pc[p] # "wait_post"
                => stats[p].processed <= stats[p].new + stats[p].duplicates + stats[p].errors)
    /\ [][\A p \in Procs : CountersGrow(p)]_vars

\* C27, its case: an import has returned after a document without identity
\* and a document that raised once its post was stored: one new post and two
\* errors for two processed documents.
C27_Witness ==
    \E p \in Procs :
        /\ pc[p] = "complete"
        /\ stats[p] = [processed |-> 2, new |-> 1, duplicates |-> 0, errors |-> 2]

\* A step that ends the processing of a document of process p with an error
\* that is no sqlite3.IntegrityError: the element is no object; the post was
\* not found and its author or posted_at is no object, or its INSERT has a
\* value that cannot be bound; the post was stored or found and the "stats"
\* is null or has a count that cannot be bound; or an INSERT that had to wait
\* is refused the write lock that another connection holds.
RaisingTurn(p) ==
    /\ pc[p] \in {"docs", "wait_post", "wait_download"}
    /\ pc'[p] \in {"docs", "files"}
    /\ pc[p] = "docs" => DocStep(p)
    /\ \/ ~ThisDoc(p).is_dict
       \/ /\ Resolves(ThisDoc(p))
          /\ pc[p] = "docs"
          /\ select_post(View(p), get_post_urn(ThisDoc(p))) = {}
          /\ ThisDoc(p).author \notin {ABSENT, "dict"}
                \/ ThisDoc(p).posted_at \notin {ABSENT, "dict"}
                \/ ThisDoc(p).text = "dict"
       \/ pc[p] = "wait_post" /\ ThisDoc(p).text = "dict"
       \/ /\ Resolves(ThisDoc(p))
          /\ ThisDoc(p).stats \in {NULL, "nested"}
          /\ \/ Added(p, "new") = 1
             \/ Added(p, "duplicates") = 1
             \/ pc[p] = "wait_download"
       \/ pc[p] # "docs" /\ Busy(p)

\* C28: a document that raises an error other than a rejected insert ends its
\* file: the documents after it are not processed and not counted, the error
\* counter goes up by exactly one, the rows written before stay in the
\* transaction, and the import goes on with the next file of the listing.
C28_RaisingDocumentEndsFile ==
    [][\A p \in Procs :
        RaisingTurn(p) =>
            /\ data'[p] = <<>>
            /\ pc'[p] = "files"
            /\ files'[p] = files[p]
            /\ Added(p, "errors") = 1
            /\ Added(p, "processed") = IF pc[p] = "docs" THEN 1 ELSE 0
            /\ View(p).posts \subseteq View(p)'.posts
            /\ View(p).data_downloads \subseteq View(p)'.data_downloads]_vars

\* C28, its case: the first element of a file was no object, and the import
\* returned without having processed the document after it.
C28_Witness ==
    /\ fs.files = <<[kind |-> "array", docs |-> <<DocNotDict, DocFull1>>]>>
    /\ pc[1] = "complete"
    /\ stats[1] = [processed |-> 1, new |-> 0, duplicates |-> 0, errors |-> 1]
    /\ \A r \in View(1).posts : r \in PriorStore.posts

\* The positions of a process inside import_directory, before its commit.
InImport == {"files", "docs", "wait_post", "wait_download"}

\* A step in which process p is killed.
KillStep(p) == pc[p] \notin Finished /\ pc'[p] = "killed"

\* Whether no process is at work on run r any more or yet.
Orphan(r) == \A p \in Procs : pc[p] \in Finished \/ run_id[p] # r.run_id

\* C29: before the commit of import_directory the file holds the run of the
\* import as running and no data_downloads row of it; the posts and the
\* data_downloads of the file change in no step but the commit of an import,
\* so that the file holds no post of an import before its commit; a kill
\* makes nothing of the open transaction durable; a running run that no
\* process works on stays as it is; and the commit makes all posts and
\* data_downloads rows of the transaction durable in one step.
C29_CrashAtomicity ==
    /\ [][(db'.posts # db.posts \/ db'.data_downloads # db.data_downloads) =>
            \E p \in Procs : CommitStep(p)]_vars
    /\ [](\A p \in Procs :
            pc[p] \in InImport =>
                /\ \E r \in db.download_runs : r.run_id = run_id[p] /\ r.status = "running"
                /\ \A o \in db.data_downloads : o.run_id # run_id[p])
    /\ [][\A p \in Procs : KillStep(p) => db' = db]_vars
    /\ [][\A r \in db.download_runs :
            r.status = "running" /\ Orphan(r) => r \in db'.download_runs]_vars
    /\ [][\A p \in Procs :
            CommitStep(p) =>
                /\ db'.posts = View(p).posts
                /\ db'.data_downloads = View(p).data_downloads]_vars

\* C29, its case: of two imports of one file the first has committed its post
\* and its data_downloads row and completed its run; the second was killed
\* inside import_directory, and the file holds its run as running and no row
\* of it.
C29_Witness ==
    /\ pc[1] = "done" /\ ret[1] = "stats"
    /\ pc[2] = "killed"
    /\ \A i \in 1..Len(log) : log[i].run_id # run_id[2]
    /\ \E r \in db.download_runs : r.run_id = run_id[2] /\ r.status = "running"
    /\ \A o \in db.data_downloads : o.run_id # run_id[2]
    /\ \E o \in db.data_downloads : o.run_id = run_id[1]
    /\ \E r \in db.download_runs : r.run_id = run_id[1] /\ r.status = "completed"

\* A step of import_directory in process p: its start, a step of the
\* create_download_run it calls, a step of its loops or its commit.
ImportDirectoryStep(p) ==
    /\ pc[p] \notin {"complete", "update", "completing"}
    /\ pc'[p] \in InImport \cup {"wait_run", "created", "complete"}

\* C30: no step of import_directory changes a row of download_runs, in the
\* file or in the view of its connection; called without a run_id it inserts
\* one row and no other, the row of a run that no row had, running with
\* completed_at and the counters unset, which the commit of
\* create_download_run puts into the file; called with a run_id it inserts
\* none; and from then until the UPDATE of the caller's complete_download_run
\* the run of the import is that row, unless the caller handed in the run_id
\* of a run that a call of complete_download_run had completed before.
C30_ImportLeavesRunStatus ==
    /\ [][\A p \in Procs :
            /\ (pc[p] \in Finished \cup {"wait_run"} /\ pc'[p] = "created") =>
                    /\ RunRow(run_id'[p]) \notin View(p).download_runs
                    /\ \A r \in View(p).download_runs : r.run_id # run_id'[p]
                    /\ View(p)'.download_runs =
                            View(p).download_runs \cup {RunRow(run_id'[p])}
            /\ (pc[p] = "created" /\ pc'[p] = "files") =>
                    /\ RunRow(run_id[p]) \notin db.download_runs
                    /\ db'.download_runs = db.download_runs \cup {RunRow(run_id[p])}
                    /\ run_id'[p] = run_id[p]
            /\ (pc[p] \in Finished /\ pc'[p] = "files") =>
                    db'.download_runs = db.download_runs]_vars
    /\ [][\A p \in Procs :
            ImportDirectoryStep(p) =>
                /\ db.download_runs \subseteq db'.download_runs
                /\ View(p).download_runs \subseteq View(p)'.download_runs
                /\ View(p)'.download_runs \ View(p).download_runs \subseteq {RunRow(run_id'[p])}
                /\ View(p)'.download_runs # View(p).download_runs => pc[p] \in Finished
                /\ db'.download_runs # db.download_runs =>
                        pc[p] = "created" /\ db'.download_runs = View(p).download_runs
                /\ (pc[p] \in Finished /\ pc'[p] = "files") =>
                        \/ \E r \in db.download_runs : r.run_id = run_id'[p]
                        \/ \A r \in db'.download_runs : r.run_id # run_id'[p]]_vars
    /\ [](\A p \in Procs :
            pc[p] \in InImport \cup {"created", "complete", "update"} =>
                \A r \in View(p).download_runs :
                    r.run_id = run_id[p] =>
                        \/ r = RunRow(run_id[p])
                        \/ \E i \in 1..Len(calls) : calls[i].run_id = r.run_id)

\* C30, its case: import_directory has stored a sighting of a known post for
\* the run it created and has returned; the run is running, with completed_at
\* and the counters unset, next to the completed run of an earlier import.
C30_Witness ==
    /\ pc[1] = "complete"
    /\ stats[1].duplicates = 1
    /\ \E o \in db.data_downloads : o.run_id = run_id[1]
    /\ RunRow(run_id[1]) \in db.download_runs
    /\ \E r \in db.download_runs : r.run_id # run_id[1] /\ r.status = "completed"

====
